---- MODULE Spec2Model ----
(***************************************************************************)
(* Model of the currency converter: the zustand store (useCurrencyStore),  *)
(* the exchange-rate service, the localStorage cache (StorageService) and  *)
(* the page handlers that drive them.                                      *)
(*                                                                         *)
(* Numbers.  Amounts are exact decimals held as integers in units of       *)
(* 1/Unit; rates are exact decimals held as integers in units of           *)
(* 1/RateScale.  Number(x.toFixed(dp)) is modelled by toFixed, which       *)
(* rounds the exact quotient half away from zero; the binary              *)
(* floating-point error of the JavaScript doubles is not modelled.         *)
(***************************************************************************)
EXTENDS Integers, Sequences, FiniteSets, TLC

VARIABLES
    currencies,          \* store: tracked Currency records, in display order
    exchangeRates,       \* store: the active snapshot, or NoSnapshot (null)
    amounts,             \* store: code -> amount (a JS object: partial map)
    conversionHistory,   \* store: ConversionRecords, newest first
    settings,            \* store: UserSettings
    isLoading,           \* store: loading flag
    error,               \* store: error message or NoError (null)
    chartData,           \* store: currency pair -> series (a JS object)
    pending,             \* requests of the store that are in flight
    localStorage,        \* StorageService: key -> stored blob (partial map)
    now,                 \* Date.now(), in milliseconds
    ticks,               \* number of clock advances so far (bounds the clock)
    calls,               \* exchangeRateService calls in flight or settled
    downloads,           \* the backup file the settings page downloaded last
    pc,                  \* position inside a two-step page handler
    last                 \* the operation that produced this state, its
                         \* arguments, its result and the values it read

storeVars == <<currencies, exchangeRates, amounts, conversionHistory,
               settings, isLoading, error, chartData, pending>>
vars == <<currencies, exchangeRates, amounts, conversionHistory, settings,
          isLoading, error, chartData, pending, localStorage, now, ticks, calls, downloads,
          pc, last>>

(***************************************************************************)
(* Bounds of the model.                                                    *)
(***************************************************************************)
MaxDecimals == 2      \* settings.decimalPlaces ranges over 0..MaxDecimals
MaxAppends == 102     \* records appended to the history in one run
MaxTicks == 3         \* clock advances in one run
MaxDays == 3          \* largest `days` asked of getHistoricalRates
MaxCalls == 2         \* getLatestRates calls issued in one run

(***************************************************************************)
(* Helpers.                                                                *)
(***************************************************************************)
RECURSIVE Pow10(_)
Pow10(n) == IF n <= 0 THEN 1 ELSE 10 * Pow10(n - 1)

Abs(x) == IF x < 0 THEN -x ELSE x
Min(a, b) == IF a <= b THEN a ELSE b

Take(s, n) == SubSeq(s, 1, Min(n, Len(s)))

\* An exact quotient n / d (d # 0) in lowest terms with a positive
\* denominator, so that equal quotients are equal values.
RECURSIVE GCD(_, _)
GCD(a, b) == IF b = 0 THEN a ELSE GCD(b, a % b)

Ratio(n, d) ==
    LET g == GCD(Abs(n), Abs(d))
        sign == IF d < 0 THEN -1 ELSE 1
    IN  [num |-> sign * (n \div g), den |-> sign * (d \div g)]

\* The value of a partial map at k, or d when k is not a key (obj[k] || d
\* for the keys the model uses).
Has(m, k) == k \in DOMAIN m

\* {...m, [k]: v}
Put(m, k, v) == [x \in DOMAIN m \cup {k} |-> IF x = k THEN v ELSE m[x]]

\* delete m[k]
Drop(m, k) == [x \in DOMAIN m \ {k} |-> m[x]]

EmptyMap == [x \in {} |-> 0]

(***************************************************************************)
(* Number(x.toFixed(dp)) for x = p / q amount units (q # 0): the multiple  *)
(* of 10^-dp nearest to x, the one farther from zero on a tie, as an       *)
(* integer number of amount units.  Unit = 10^(MaxDecimals + 1), so an     *)
(* amount can carry one decimal more than any decimalPlaces setting.       *)
(***************************************************************************)
AmountDigits == MaxDecimals + 1
Unit == Pow10(AmountDigits)
RateScale == Pow10(4)

RoundHalfUp(p, q) == (p \div q) + (IF 2 * (p % q) >= q THEN 1 ELSE 0)

\* A toFixed that drops the extra digits instead of rounding them (a variant
\* the rounding properties must tell apart from the real one).
toFixedTruncates(p, q, dp) ==
    LET step == Pow10(AmountDigits - dp)
    IN  IF p >= 0 THEN (p \div (q * step)) * step
                  ELSE -((-p) \div (q * step)) * step

toFixed(p, q, dp) ==
    LET step == Pow10(AmountDigits - dp)
        n == IF q < 0 THEN -p ELSE p
        d == Abs(q)
    IN  IF n >= 0 THEN RoundHalfUp(n, d * step) * step
                  ELSE -(RoundHalfUp(-n, d * step) * step)

(***************************************************************************)
(* The store's data.                                                       *)
(***************************************************************************)
NoSnapshot == [absent |-> TRUE]          \* exchangeRates: null
NoError == "null"                        \* error: null
NoFile == [kind |-> "no file"]            \* downloads: nothing downloaded

\* No page handler is between two of its store calls.
Idle == pc.at = "idle"

\* Currency codes the model edits and tracks.
Codes == {"USD", "CNY", "EUR", "GBP"}

\* A tracked Currency (name and symbol are functions of the code and are
\* left out).
Currency(code, active, favorite) ==
    [code |-> code, isActive |-> active, isFavorite |-> favorite]

\* DEFAULT_CURRENCIES and DEFAULT_SETTINGS of constants/currencies.
DEFAULT_CURRENCIES ==
    <<Currency("USD", TRUE, FALSE), Currency("CNY", TRUE, FALSE),
      Currency("EUR", TRUE, FALSE), Currency("GBP", TRUE, FALSE)>>

DEFAULT_SETTINGS ==
    [preferredCurrencies |-> <<"USD", "CNY", "EUR">>,
     defaultBaseCurrency |-> "USD",
     decimalPlaces |-> 2,
     refreshInterval |-> 5]

\* Rate snapshots a caller hands to setExchangeRates: the rate endpoint's
\* shape with the base among the rates, a table without its base (the shape
\* of the fallback tables), and a table holding a zero rate.
Snapshot(base, rates, timestamp, source) ==
    [base |-> base, rates |-> rates, timestamp |-> timestamp, source |-> source]

SnapUSD ==
    Snapshot("USD",
             [c \in {"USD", "CNY", "EUR"} |->
                 CASE c = "USD" -> RateScale
                   [] c = "CNY" -> 72456
                   [] c = "EUR" -> 8829],
             0, "Exchange Rate API")

SnapCNY ==
    Snapshot("CNY",
             [c \in {"USD", "EUR"} |->
                 CASE c = "USD" -> 1381
                   [] c = "EUR" -> 1219],
             0, "Fallback Data")

SnapEUR ==
    Snapshot("EUR",
             [c \in {"USD", "GBP"} |->
                 CASE c = "USD" -> 11326
                   [] c = "GBP" -> 0],
             0, "Exchange Rate API")

TestSnapshots == {SnapUSD, SnapCNY, SnapEUR}

\* Amounts a user can type, in amount units: -1, 0, 1, and 1 + 1/Unit, which
\* uses the finest decimal the model carries.
AmountInputs == {-Unit, 0, Unit, Unit + 1}

DecimalChoices == 0 .. MaxDecimals

(***************************************************************************)
(* setAmount (store).                                                      *)
(***************************************************************************)
\* line 79: if (exchangeRates && amount > 0)
PropagatesAlways(snapshot, amount) == snapshot # NoSnapshot

Propagates(snapshot, amount) == snapshot # NoSnapshot /\ amount > 0

\* line 81: currency === baseCurrency ? 1 : exchangeRates.rates[currency];
\* 0 stands for a missing (undefined) rate as well: both are falsy.
BaseRate(snapshot, currency) ==
    IF currency = snapshot.base THEN RateScale
    ELSE IF Has(snapshot.rates, currency) THEN snapshot.rates[currency]
    ELSE 0

\* lines 85-98: the amounts derived from the edit.  baseAmount is
\* amount / baseRate, so baseAmount * rate = amount * rate / baseRate.
\* (a variant that zeroes the entries the snapshot has no rate for)
DerivedAmountsZeroingOthers(snapshot, currency, amount, dp, newAmounts) ==
    LET baseRate == BaseRate(snapshot, currency)
        others == DOMAIN snapshot.rates \ {currency}
        withBase == IF currency # snapshot.base THEN {snapshot.base} ELSE {}
    IN  [code \in DOMAIN newAmounts \cup others \cup withBase |->
            IF code \in withBase
              THEN toFixed(amount * RateScale, baseRate, dp)
            ELSE IF code \in others
              THEN toFixed(amount * snapshot.rates[code], baseRate, dp)
            ELSE IF code = currency THEN newAmounts[code]
            ELSE 0]

DerivedAmounts(snapshot, currency, amount, dp, newAmounts) ==
    LET baseRate == BaseRate(snapshot, currency)
        others == DOMAIN snapshot.rates \ {currency}
        withBase == IF currency # snapshot.base THEN {snapshot.base} ELSE {}
    IN  [code \in DOMAIN newAmounts \cup others \cup withBase |->
            IF code \in withBase
              THEN toFixed(amount * RateScale, baseRate, dp)
            ELSE IF code \in others
              THEN toFixed(amount * snapshot.rates[code], baseRate, dp)
            ELSE newAmounts[code]]

\* lines 75-102
NewAmounts(old, snapshot, currency, amount, dp) ==
    LET newAmounts == Put(old, currency, amount)
    IN  IF Propagates(snapshot, amount) /\ BaseRate(snapshot, currency) # 0
          THEN DerivedAmounts(snapshot, currency, amount, dp, newAmounts)
          ELSE newAmounts

SetAmount(currency, amount) ==
    /\ Idle
    /\ amounts' = NewAmounts(amounts, exchangeRates, currency, amount,
                             settings.decimalPlaces)
    /\ last' = [op |-> "setAmount", currency |-> currency, amount |-> amount]
    /\ UNCHANGED <<currencies, exchangeRates, conversionHistory, settings,
                   isLoading, error, chartData, pending, localStorage, now, ticks, downloads,
                   calls, pc>>

\* setExchangeRates (store), lines 54-56
SetExchangeRates(rates) ==
    /\ Idle
    /\ exchangeRates' = rates
    /\ last' = [op |-> "setExchangeRates"]
    /\ UNCHANGED <<currencies, amounts, conversionHistory, settings,
                   isLoading, error, chartData, pending, localStorage, now, ticks, downloads,
                   calls, pc>>


(***************************************************************************)
(* updateSettings (store), lines 149-158.  A partial update is a map from  *)
(* some of the settings' field names to their new values.                  *)
(***************************************************************************)
Merge(old, partial) ==
    [f \in DOMAIN old |-> IF f \in DOMAIN partial THEN partial[f] ELSE old[f]]

\* line 155: newSettings.defaultBaseCurrency &&
\*           newSettings.defaultBaseCurrency !== settings.defaultBaseCurrency
\* (a variant that refreshes whenever the partial names a base)
BaseGiven(old, partial) ==
    /\ "defaultBaseCurrency" \in DOMAIN partial
    /\ partial.defaultBaseCurrency # ""

BaseChanges(old, partial) ==
    /\ "defaultBaseCurrency" \in DOMAIN partial
    /\ partial.defaultBaseCurrency # ""
    /\ partial.defaultBaseCurrency # old.defaultBaseCurrency

\* refreshExchangeRates up to its await, lines 59-63: the request carries
\* the base currency read from the settings when it is issued.
RefreshRequest(base) == [kind |-> "refresh", base |-> base]

UpdateSettings(partial) ==
    /\ Idle
    /\ settings' = Merge(settings, partial)
    /\ IF BaseChanges(settings, partial)
         THEN /\ isLoading' = TRUE
              /\ error' = NoError
              /\ pending' = Append(pending,
                                   RefreshRequest(partial.defaultBaseCurrency))
         ELSE UNCHANGED <<isLoading, error, pending>>
    /\ last' = [op |-> "updateSettings", partial |-> partial]
    /\ UNCHANGED <<currencies, exchangeRates, amounts, conversionHistory,
                   chartData, localStorage, now, ticks, downloads, calls, pc>>

(***************************************************************************)
(* The state after construction: the store's initial state (lines 11-19),  *)
(* an empty localStorage, no request in flight.                            *)
(***************************************************************************)
Init ==
    /\ currencies = DEFAULT_CURRENCIES
    /\ exchangeRates = NoSnapshot
    /\ amounts = EmptyMap
    /\ conversionHistory = <<>>
    /\ settings = DEFAULT_SETTINGS
    /\ isLoading = FALSE
    /\ error = NoError
    /\ chartData = EmptyMap
    /\ pending = <<>>
    /\ localStorage = EmptyMap
    /\ now = 0
    /\ ticks = 0
    /\ calls = <<>>
    /\ downloads = NoFile
    /\ pc = [at |-> "idle"]
    /\ last = [op |-> "init"]

(***************************************************************************)
(* Amount edits: setAmount under every snapshot and decimalPlaces.         *)
(***************************************************************************)
NextAmounts ==
    \/ \E currency \in Codes, amount \in AmountInputs :
          SetAmount(currency, amount)
    \/ \E rates \in TestSnapshots : SetExchangeRates(rates)
    \/ \E dp \in DecimalChoices : UpdateSettings([decimalPlaces |-> dp])

SpecAmounts == Init /\ [][NextAmounts]_vars

\* The edit that produced the current state, when it was a setAmount.
EditDone == last.op = "setAmount"

\* C1: after setAmount(base, X) with X > 0 and a snapshot present,
\* amounts[base] is X rounded to decimalPlaces and amounts[code] is
\* X * rate(code) rounded to decimalPlaces for every code of the snapshot's
\* rates.
C1_BaseEditRoundsAll ==
    (/\ EditDone
     /\ exchangeRates # NoSnapshot
     /\ last.currency = exchangeRates.base
     /\ last.amount > 0)
    => LET dp == settings.decimalPlaces
           X == last.amount
       IN  /\ Has(amounts, exchangeRates.base)
           /\ amounts[exchangeRates.base] = toFixed(X, 1, dp)
           /\ \A code \in DOMAIN exchangeRates.rates :
                 /\ Has(amounts, code)
                 /\ amounts[code] =
                       toFixed(X * exchangeRates.rates[code], RateScale, dp)

\* C2: after setAmount(c, X) with c not the base, X > 0 and a rate for c in
\* the snapshot, with anchor = X / rate(c): amounts[code] is
\* anchor * rate(code) rounded to decimalPlaces for every code of the
\* snapshot's rates, and amounts[base] is the anchor rounded.
C2_NonBaseEditUsesAnchor ==
    (/\ EditDone
     /\ exchangeRates # NoSnapshot
     /\ last.currency # exchangeRates.base
     /\ last.amount > 0
     /\ Has(exchangeRates.rates, last.currency)
     /\ exchangeRates.rates[last.currency] > 0)
    => LET dp == settings.decimalPlaces
           X == last.amount
           rc == exchangeRates.rates[last.currency]
       IN  /\ \A code \in DOMAIN exchangeRates.rates :
                 /\ Has(amounts, code)
                 /\ amounts[code] = toFixed(X * exchangeRates.rates[code], rc, dp)
           /\ Has(amounts, exchangeRates.base)
           /\ amounts[exchangeRates.base] = toFixed(X * RateScale, rc, dp)

\* C3: a setAmount(c, X) step with X <= 0, or with no snapshot, sets
\* amounts[c] to X and leaves every other currency's amount (and absence) as
\* it was before the step.
C3_NoPropagation ==
    [][(last'.op = "setAmount"
          /\ (last'.amount <= 0 \/ exchangeRates = NoSnapshot))
       => /\ Has(amounts', last'.currency)
          /\ amounts'[last'.currency] = last'.amount
          /\ Drop(amounts', last'.currency) = Drop(amounts, last'.currency)]_vars

\* C3's case: a non-positive edit of the base while a snapshot is present
\* and another currency, which the snapshot could have recomputed, holds an
\* amount.
C3_Witness ==
    /\ EditDone
    /\ last.amount <= 0
    /\ exchangeRates # NoSnapshot
    /\ last.currency = exchangeRates.base
    /\ \E d \in DOMAIN exchangeRates.rates \ {last.currency} :
          Has(amounts, d) /\ amounts[d] > 0

(***************************************************************************)
(* The conversion history (store), lines 134-146.                          *)
(***************************************************************************)
HistoryCap == 100

\* A ConversionRecord.  The id is Date.now().toString(); the model keeps the
\* number, of which the decimal string is an injective rendering.  The
\* exchangeRate is an exact quotient (a Ratio).
ConversionRecord(id, from, to, fromAmount, toAmount, rate, timestamp, source) ==
    [id |-> id, fromCurrency |-> from, toCurrency |-> to,
     fromAmount |-> fromAmount, toAmount |-> toAmount, exchangeRate |-> rate,
     timestamp |-> timestamp, source |-> source]

\* line 136: [record, ...conversionHistory].slice(0, 100)
NewHistoryKeepsOneMore(record, history) ==
    Take(<<record>> \o history, HistoryCap + 1)

NewHistory(record, history) == Take(<<record>> \o history, HistoryCap)

\* addConversionRecord's writes; the clock is left to the caller.
StoreAppend(record) ==
    /\ conversionHistory' = NewHistory(record, conversionHistory)
    /\ last' = [op |-> "addConversionRecord", record |-> record]
    /\ UNCHANGED <<currencies, exchangeRates, amounts, settings, isLoading,
                   error, chartData, pending, localStorage, ticks, downloads, calls, pc>>

AddConversionRecord(record) ==
    /\ Idle
    /\ StoreAppend(record)
    /\ UNCHANGED now

ClearConversionHistory ==
    /\ Idle
    /\ conversionHistory' = <<>>
    /\ last' = [op |-> "clearConversionHistory"]
    /\ UNCHANGED <<currencies, exchangeRates, amounts, settings, isLoading,
                   error, chartData, pending, localStorage, now, ticks, downloads, calls, pc>>

ClearHistory ==
    /\ Idle
    /\ conversionHistory' = <<>>
    /\ last' = [op |-> "clearHistory"]
    /\ UNCHANGED <<currencies, exchangeRates, amounts, settings, isLoading,
                   error, chartData, pending, localStorage, now, ticks, downloads, calls, pc>>

\* The record the conversion page appends for an edit made at time t while no
\* snapshot is loaded (ConversionPage, handleAmountChange).
AllRecord(t) ==
    ConversionRecord(t, "USD", "ALL", Unit, 0, Ratio(RateScale, RateScale), t,
                     "Unknown")

\* The page appends a record one millisecond after the previous append, so
\* that every record of a run is distinct and its id tells when it was
\* appended.
AppendFresh ==
    /\ Idle
    /\ now < MaxAppends
    /\ now' = now + 1
    /\ StoreAppend(AllRecord(now + 1))

NextHistory ==
    \/ AppendFresh
    \/ ClearConversionHistory
    \/ ClearHistory

SpecHistory == Init /\ [][NextHistory]_vars

\* Newest first with nothing missing in between: each record was appended
\* right after the one that follows it.
NewestFirst(history) ==
    \A i \in 1 .. Len(history) - 1 : history[i].id = history[i + 1].id + 1

\* An append puts the record at the front, shifts the others by one place in
\* their order, and drops only what falls beyond the cap.
AppendStep ==
    last'.op = "addConversionRecord"
    => /\ Len(conversionHistory') = Min(Len(conversionHistory) + 1, HistoryCap)
       /\ conversionHistory'[1] = last'.record
       /\ \A i \in 2 .. Len(conversionHistory') :
             conversionHistory'[i] = conversionHistory[i - 1]

\* C4: conversionHistory never holds more than 100 records and is ordered
\* newest first; addConversionRecord puts the new record at index 0, keeps
\* the order of the others and drops only from the tail; once 101 records
\* have been appended the first one appended is absent.
C4_BoundedNewestFirst ==
    /\ [](/\ Len(conversionHistory) <= HistoryCap
          /\ NewestFirst(conversionHistory)
          /\ now > HistoryCap
               => \A i \in 1 .. Len(conversionHistory) :
                     conversionHistory[i] # AllRecord(1))
    /\ [][AppendStep]_vars

\* C4's case: the 101st append (or a later one) onto a full history, which
\* evicted the oldest record.
C4_Witness ==
    /\ last.op = "addConversionRecord"
    /\ last.record.id > HistoryCap
    /\ Len(conversionHistory) = HistoryCap
    /\ conversionHistory[1] = last.record
    /\ conversionHistory[HistoryCap].id = last.record.id - HistoryCap + 1

(***************************************************************************)
(* StorageService over localStorage.  A stored item is the JSON text of a  *)
(* value; the values the model stores (finite numbers, strings, arrays and *)
(* plain objects without undefined fields) are the ones JSON.parse gives   *)
(* back unchanged, and the item keeps the value under `json`.  The storage *)
(* accepts every write.                                                    *)
(***************************************************************************)
KEY_SETTINGS == "SETTINGS"
KEY_HISTORY == "HISTORY"
KEY_CURRENCIES == "CURRENCIES"
KEY_EXCHANGE_RATES == "EXCHANGE_RATES"
KEY_CHART_DATA == "CHART_DATA"
STORAGE_KEYS ==
    {KEY_SETTINGS, KEY_HISTORY, KEY_CURRENCIES, KEY_EXCHANGE_RATES,
     KEY_CHART_DATA}

\* setItem, getItem (with its default), removeItem
SetItem(storage, key, value) == Put(storage, key, [json |-> value])
GetItem(storage, key, defaultValue) ==
    IF Has(storage, key) THEN storage[key].json ELSE defaultValue
RemoveItem(storage, key) == Drop(storage, key)

\* The cache lifetimes, in milliseconds.
RateCacheExpiry == 30 * 60 * 1000
ChartCacheExpiry == 60 * 60 * 1000

\* if (Date.now() - cached.cachedAt > cacheExpiry)
RateEntryExpiredAfterAnHour(t, cachedAt) == t - cachedAt > ChartCacheExpiry

RateEntryExpired(t, cachedAt) == t - cachedAt > RateCacheExpiry

ChartEntryExpired(t, cachedAt) == t - cachedAt > ChartCacheExpiry

NoEntry == [absent |-> TRUE]

\* saveExchangeRates: { ...rates, cachedAt: Date.now() }
SaveExchangeRates(rates) ==
    /\ Idle
    /\ localStorage' =
          SetItem(localStorage, KEY_EXCHANGE_RATES,
                  [base |-> rates.base, rates |-> rates.rates,
                   timestamp |-> rates.timestamp, source |-> rates.source,
                   cachedAt |-> now])
    /\ last' = [op |-> "saveExchangeRates"]
    /\ UNCHANGED <<storeVars, now, ticks, downloads, calls, pc>>

\* loadExchangeRates.  last.age is the entry's age at the read (-1: no entry).
LoadExchangeRates ==
    /\ Idle
    /\ LET cached == GetItem(localStorage, KEY_EXCHANGE_RATES, NoEntry)
       IN  IF cached = NoEntry
             THEN /\ last' = [op |-> "loadExchangeRates", hit |-> FALSE,
                              value |-> NoSnapshot, age |-> -1]
                  /\ UNCHANGED localStorage
           ELSE IF RateEntryExpired(now, cached.cachedAt)
             THEN /\ localStorage' = RemoveItem(localStorage, KEY_EXCHANGE_RATES)
                  /\ last' = [op |-> "loadExchangeRates", hit |-> FALSE,
                              value |-> NoSnapshot,
                              age |-> now - cached.cachedAt]
           ELSE /\ last' = [op |-> "loadExchangeRates", hit |-> TRUE,
                            value |-> Snapshot(cached.base, cached.rates,
                                               cached.timestamp, cached.source),
                            age |-> now - cached.cachedAt]
                /\ UNCHANGED localStorage
    /\ UNCHANGED <<storeVars, now, ticks, downloads, calls, pc>>

\* saveChartData: one blob holds every pair's { data, cachedAt }
SaveChartData(currencyPair, data) ==
    /\ Idle
    /\ LET allChartData == GetItem(localStorage, KEY_CHART_DATA, EmptyMap)
       IN  localStorage' =
              SetItem(localStorage, KEY_CHART_DATA,
                      Put(allChartData, currencyPair,
                          [data |-> data, cachedAt |-> now]))
    /\ last' = [op |-> "saveChartData", pair |-> currencyPair]
    /\ UNCHANGED <<storeVars, now, ticks, downloads, calls, pc>>

\* loadChartData
LoadChartData(currencyPair) ==
    /\ Idle
    /\ LET allChartData == GetItem(localStorage, KEY_CHART_DATA, EmptyMap)
       IN  IF ~Has(allChartData, currencyPair)
             THEN /\ last' = [op |-> "loadChartData", pair |-> currencyPair,
                              hit |-> FALSE, value |-> <<>>, age |-> -1]
                  /\ UNCHANGED localStorage
           ELSE IF ChartEntryExpired(now, allChartData[currencyPair].cachedAt)
             THEN /\ localStorage' =
                        SetItem(localStorage, KEY_CHART_DATA,
                                Drop(allChartData, currencyPair))
                  /\ last' = [op |-> "loadChartData", pair |-> currencyPair,
                              hit |-> FALSE, value |-> <<>>,
                              age |-> now - allChartData[currencyPair].cachedAt]
           ELSE /\ last' = [op |-> "loadChartData", pair |-> currencyPair,
                            hit |-> TRUE,
                            value |-> allChartData[currencyPair].data,
                            age |-> now - allChartData[currencyPair].cachedAt]
                /\ UNCHANGED localStorage
    /\ UNCHANGED <<storeVars, now, ticks, downloads, calls, pc>>

\* clearAllCache
ClearAllCache ==
    /\ Idle
    /\ localStorage' =
          RemoveItem(RemoveItem(localStorage, KEY_EXCHANGE_RATES),
                     KEY_CHART_DATA)
    /\ last' = [op |-> "clearAllCache"]
    /\ UNCHANGED <<storeVars, now, ticks, downloads, calls, pc>>

\* Time passes: to the last millisecond before an expiry, or by one
\* millisecond.
ClockDeltas == {1, RateCacheExpiry - 1, ChartCacheExpiry - 1}

Advance(delta) ==
    /\ Idle
    /\ ticks < MaxTicks
    /\ ticks' = ticks + 1
    /\ now' = now + delta
    /\ last' = [op |-> "advance"]
    /\ UNCHANGED <<storeVars, localStorage, calls, downloads, pc>>

\* A ChartDataPoint and the series the cache is given.
ChartDataPoint(date, rate, timestamp) ==
    [date |-> date, rate |-> rate, timestamp |-> timestamp]

CachedPairs == {"USD/CNY", "CNY/USD"}
CachedSeries ==
    {<<ChartDataPoint(0, 72456, 0)>>,
     <<ChartDataPoint(0, 72456, 0), ChartDataPoint(1, 72460, ChartCacheExpiry)>>}
CachedSnapshots == {SnapUSD, SnapCNY}

NextCache ==
    \/ \E delta \in ClockDeltas : Advance(delta)
    \/ \E rates \in CachedSnapshots : SaveExchangeRates(rates)
    \/ LoadExchangeRates
    \/ \E pair \in CachedPairs, data \in CachedSeries : SaveChartData(pair, data)
    \/ \E pair \in CachedPairs : LoadChartData(pair)
    \/ ClearAllCache

SpecCache == Init /\ [][NextCache]_vars

\* The entries as the next read finds them.
RateEntry == GetItem(localStorage, KEY_EXCHANGE_RATES, NoEntry)
ChartEntries == GetItem(localStorage, KEY_CHART_DATA, EmptyMap)

\* A read of the rate cache: before the 30 minutes are over it returns the
\* snapshot that was saved and keeps the entry; after them it misses and
\* removes the entry; with no entry it misses.
RateReadStep ==
    last'.op = "loadExchangeRates"
    => IF RateEntry = NoEntry THEN ~last'.hit
       ELSE LET age == now - RateEntry.cachedAt
            IN  /\ age < RateCacheExpiry
                     => /\ last'.hit
                        /\ last'.value =
                              Snapshot(RateEntry.base, RateEntry.rates,
                                       RateEntry.timestamp, RateEntry.source)
                        /\ localStorage' = localStorage
                /\ age > RateCacheExpiry
                     => /\ ~last'.hit
                        /\ ~Has(localStorage', KEY_EXCHANGE_RATES)

\* The same for a pair's series and its 60 minutes; the expired read removes
\* that pair's entry and no other.
ChartReadStep ==
    last'.op = "loadChartData"
    => LET pair == last'.pair
       IN  IF ~Has(ChartEntries, pair) THEN ~last'.hit
           ELSE LET age == now - ChartEntries[pair].cachedAt
                IN  /\ age < ChartCacheExpiry
                         => /\ last'.hit
                            /\ last'.value = ChartEntries[pair].data
                            /\ localStorage' = localStorage
                    /\ age > ChartCacheExpiry
                         => /\ ~last'.hit
                            /\ ChartEntries' = Drop(ChartEntries, pair)

\* C5: a rate-cache entry (TTL 30 minutes) or a pair's series entry (TTL 60
\* minutes) read before capturedAt + TTL is a hit; read after capturedAt +
\* TTL it is a miss, the read deletes the entry, and a read that finds no
\* entry is a miss.
C5_CacheExpiry == [][RateReadStep /\ ChartReadStep]_vars

\* C5's case: a read 1 ms after the expiry that missed and removed the entry.
C5_Witness ==
    \/ /\ last.op = "loadExchangeRates"
       /\ last.age = RateCacheExpiry + 1
       /\ ~last.hit
       /\ ~Has(localStorage, KEY_EXCHANGE_RATES)
    \/ /\ last.op = "loadChartData"
       /\ last.age = ChartCacheExpiry + 1
       /\ ~last.hit
       /\ ~Has(ChartEntries, last.pair)

\* Reads 1 ms before the expiry that hit, and a miss on the read after an
\* expired one.
C5_HitBeforeExpiry ==
    /\ last.op = "loadExchangeRates"
    /\ last.age = RateCacheExpiry - 1
    /\ last.hit

C5_ChartHitBeforeExpiry ==
    /\ last.op = "loadChartData"
    /\ last.age = ChartCacheExpiry - 1
    /\ last.hit
    /\ last.value = ChartEntries[last.pair].data

(***************************************************************************)
(* The tracked currency list: the store's operations (lines 22-51) and the *)
(* handlers of the currency management page.  A handler that calls the     *)
(* store twice takes two steps; the store's subscribers see the state in   *)
(* between.                                                                *)
(***************************************************************************)
\* An entry of the list that is a bare code string instead of a Currency
\* (what the conversion page's reorder handler stores), and c.code of an
\* entry: undefined for a string.
CodeString(code) == [string |-> code]
CodeOf(entry) == IF "code" \in DOMAIN entry THEN entry.code ELSE "undefined"

CodesOf(list) == {CodeOf(list[i]) : i \in 1 .. Len(list)}

\* addCurrency, lines 30-36
\* (a variant without the duplicate check of line 32)
WithCurrencyEvenIfTracked(list, currency) == Append(list, currency)

WithCurrency(list, currency) ==
    IF currency.code \in CodesOf(list) THEN list ELSE Append(list, currency)

\* removeCurrency, lines 38-47
WithoutCurrency(list, code) ==
    LET Keep(c) == CodeOf(c) # code IN SelectSeq(list, Keep)
WithoutPreferred(preferred, code) == LET Keep(c) == c # code IN SelectSeq(preferred, Keep)

StoreAddCurrency(currency) ==
    /\ currencies' = WithCurrency(currencies, currency)
    /\ UNCHANGED <<exchangeRates, amounts, conversionHistory, settings,
                   isLoading, error, chartData, pending>>

StoreRemoveCurrency(code) ==
    /\ currencies' = WithoutCurrency(currencies, code)
    /\ settings' =
          [settings EXCEPT !.preferredCurrencies = WithoutPreferred(@, code)]
    /\ UNCHANGED <<exchangeRates, amounts, conversionHistory, isLoading,
                   error, chartData, pending>>

\* updateCurrencyOrder, lines 49-51
StoreUpdateCurrencyOrder(list) ==
    /\ currencies' = list
    /\ UNCHANGED <<exchangeRates, amounts, conversionHistory, settings,
                   isLoading, error, chartData, pending>>

\* currencies.find(c => c.code === code)
Find(list, code) ==
    LET i == CHOOSE i \in 1 .. Len(list) :
                 /\ CodeOf(list[i]) = code
                 /\ \A j \in 1 .. i - 1 : CodeOf(list[j]) # code
    IN  list[i]

\* handleAddCurrency, lines 45-55; the page offers the default currencies
\* that are not tracked (lines 23-24)
HandleAddCurrency(code) ==
    /\ Idle
    /\ code \in CodesOf(DEFAULT_CURRENCIES) \ CodesOf(currencies)
    /\ StoreAddCurrency(Currency(code, TRUE, FALSE))
    /\ last' = [op |-> "handleAddCurrency", code |-> code]
    /\ UNCHANGED <<localStorage, now, ticks, downloads, calls, pc>>

\* handleRemoveCurrency, lines 58-65: the guard and the store call.  The
\* page shows the remove and toggle buttons of tracked currencies (line 150).
RemovalAllowedAlways(list) == TRUE

RemovalAllowed(list) == ~(Len(list) <= 2)

HandleRemoveCurrency(code) ==
    /\ Idle
    /\ code \in CodesOf(currencies)
    /\ IF RemovalAllowed(currencies)
         THEN StoreRemoveCurrency(code)
         ELSE UNCHANGED storeVars
    /\ last' = [op |-> "handleRemoveCurrency", code |-> code]
    /\ UNCHANGED <<localStorage, now, ticks, downloads, calls, pc>>

\* handleToggleFavorite, lines 68-78, up to and including removeCurrency
\* What a toggle started from, kept until its addCurrency has run.
BeforeToggle ==
    [currencies |-> currencies,
     preferredCurrencies |-> settings.preferredCurrencies]

HandleToggleFavorite(code) ==
    /\ Idle
    /\ code \in CodesOf(currencies)
    /\ StoreRemoveCurrency(code)
    /\ pc' = [at |-> "addCurrency",
              currency |-> [Find(currencies, code) EXCEPT
                               !.isFavorite = ~@],
              flag |-> "isFavorite", before |-> BeforeToggle]
    /\ last' = [op |-> "removeCurrency", code |-> code,
                by |-> "handleToggleFavorite"]
    /\ UNCHANGED <<localStorage, now, ticks, downloads, calls>>

\* handleToggleActive, lines 81-87, up to and including removeCurrency
HandleToggleActive(code) ==
    /\ Idle
    /\ code \in CodesOf(currencies)
    /\ StoreRemoveCurrency(code)
    /\ pc' = [at |-> "addCurrency",
              currency |-> [Find(currencies, code) EXCEPT !.isActive = ~@],
              flag |-> "isActive", before |-> BeforeToggle]
    /\ last' = [op |-> "removeCurrency", code |-> code,
                by |-> "handleToggleActive"]
    /\ UNCHANGED <<localStorage, now, ticks, downloads, calls>>

\* the addCurrency call that ends either toggle (lines 76 and 85)
ToggleAddCurrency ==
    /\ pc.at = "addCurrency"
    /\ StoreAddCurrency(pc.currency)
    /\ pc' = [at |-> "idle"]
    /\ last' = [op |-> "addCurrency", code |-> pc.currency.code]
    /\ UNCHANGED <<localStorage, now, ticks, downloads, calls>>

\* items.splice(source, 1); items.splice(destination, 0, item), with
\* positions counted from 1
RemoveAt(list, i) == SubSeq(list, 1, i - 1) \o SubSeq(list, i + 1, Len(list))
InsertAt(list, i, x) == SubSeq(list, 1, i - 1) \o <<x>> \o SubSeq(list, i, Len(list))
Moved(list, source, destination) ==
    InsertAt(RemoveAt(list, source), destination, list[source])

\* handleDragEnd, lines 31-42; destination 0 stands for a drop outside the
\* list (result.destination is null).  The map at lines 38-40 finds each
\* item's own record again.
HandleDragEnd(source, destination) ==
    /\ Idle
    /\ source \in 1 .. Len(currencies)
    /\ destination \in 0 .. Len(currencies)
    /\ IF destination = 0
         THEN UNCHANGED storeVars
         ELSE LET items == Moved(currencies, source, destination)
              IN  StoreUpdateCurrencyOrder(
                      [i \in 1 .. Len(items) |->
                          Find(currencies, CodeOf(items[i]))])
    /\ last' = [op |-> "handleDragEnd"]
    /\ UNCHANGED <<localStorage, now, ticks, downloads, calls, pc>>

NextCurrencies ==
    \/ \E code \in Codes : HandleAddCurrency(code)
    \/ \E code \in Codes : HandleRemoveCurrency(code)
    \/ \E code \in Codes : HandleToggleFavorite(code)
    \/ \E code \in Codes : HandleToggleActive(code)
    \/ ToggleAddCurrency
    \/ \E source, destination \in 0 .. Cardinality(Codes) :
          HandleDragEnd(source, destination)

SpecCurrencies == Init /\ [][NextCurrencies]_vars

\* A step that takes a code off the tracked list.
Removes(code) == code \in CodesOf(currencies) /\ code \notin CodesOf(currencies')

\* C6: a removal attempted while exactly 2 currencies are tracked fails and
\* leaves the tracked list and settings.preferredCurrencies unchanged; a
\* removal takes effect only while more than 2 currencies are tracked.
C6_RemovalStopsAtTwo ==
    [][/\ (last'.op \in {"handleRemoveCurrency", "removeCurrency"}
             /\ Len(currencies) = 2)
          => /\ currencies' = currencies
             /\ settings'.preferredCurrencies = settings.preferredCurrencies
       /\ \A code \in Codes : Removes(code) => Len(currencies) > 2]_vars

\* The part of C6 the code keeps: handleRemoveCurrency itself refuses to
\* remove from a list of 2 or fewer.
C6_HandlerGuard ==
    [][last'.op = "handleRemoveCurrency"
       => /\ Len(currencies) <= 2
             => /\ currencies' = currencies
                /\ settings'.preferredCurrencies = settings.preferredCurrencies
          /\ \A code \in Codes : Removes(code) => Len(currencies) > 2]_vars

\* C7: in every state of the store, the states between a toggle's
\* removeCurrency and its addCurrency included, at least 2 currencies are
\* tracked.
C7_AtLeastTwoTracked == Len(currencies) >= 2

(***************************************************************************)
(* exchangeRateService.getLatestRates and its fallback.                    *)
(***************************************************************************)
\* What a field that is missing from a response reads as: undefined for an
\* object, and NaN once a number is computed from it.  No clock value and no
\* rate table equals either.
Undefined == [undefined |-> TRUE]
NaN == 0 - 1

\* mockRates, lines 102-145, in units of 1/RateScale
MockRatesUSD ==
    [c \in {"CNY", "EUR", "GBP", "JPY", "AUD", "HKD", "TWD", "KRW", "SGD",
            "CAD", "CHF", "SEK", "NOK", "DKK", "NZD", "THB", "MYR", "INR",
            "RUB"} |->
        CASE c = "CNY" -> 72456    [] c = "EUR" -> 8829
          [] c = "GBP" -> 7892     [] c = "JPY" -> 1493200
          [] c = "AUD" -> 15234    [] c = "HKD" -> 78123
          [] c = "TWD" -> 314560   [] c = "KRW" -> 13425600
          [] c = "SGD" -> 13456    [] c = "CAD" -> 13678
          [] c = "CHF" -> 8934     [] c = "SEK" -> 102340
          [] c = "NOK" -> 105670   [] c = "DKK" -> 67890
          [] c = "NZD" -> 16234    [] c = "THB" -> 356780
          [] c = "MYR" -> 46789    [] c = "INR" -> 832340
          [] c = "RUB" -> 923450]

MockRatesCNY ==
    [c \in {"USD", "EUR", "GBP", "JPY", "AUD", "HKD", "TWD", "KRW", "SGD",
            "CAD", "CHF", "SEK", "NOK", "DKK", "NZD", "THB", "MYR", "INR",
            "RUB"} |->
        CASE c = "USD" -> 1381     [] c = "EUR" -> 1219
          [] c = "GBP" -> 1090     [] c = "JPY" -> 206120
          [] c = "AUD" -> 2103     [] c = "HKD" -> 10789
          [] c = "TWD" -> 43456    [] c = "KRW" -> 1853400
          [] c = "SGD" -> 1858     [] c = "CAD" -> 1888
          [] c = "CHF" -> 1234     [] c = "SEK" -> 14123
          [] c = "NOK" -> 14589    [] c = "DKK" -> 9367
          [] c = "NZD" -> 2241     [] c = "THB" -> 49234
          [] c = "MYR" -> 6456     [] c = "INR" -> 114890
          [] c = "RUB" -> 127450]

mockRates == [b \in {"USD", "CNY"} |-> IF b = "USD" THEN MockRatesUSD ELSE MockRatesCNY]

\* getFallbackRates, lines 100-155; t is Date.now()
\* (a variant whose table lookup has no default)
getFallbackRatesWithoutDefault(baseCurrency, t) ==
    LET rates == IF Has(mockRates, baseCurrency) THEN mockRates[baseCurrency]
                 ELSE EmptyMap
    IN  Snapshot(baseCurrency, rates, t, "Fallback Data")

getFallbackRates(baseCurrency, t) ==
    LET rates == IF Has(mockRates, baseCurrency) THEN mockRates[baseCurrency]
                 ELSE mockRates["USD"]
    IN  Snapshot(baseCurrency, rates, t, "Fallback Data")

\* The outcomes of the GET of line 18.  axios rejects on a transport error
\* (no connection, timeout) and on a status outside 2xx; otherwise the
\* response carries a body, which may be empty.
TransportError == [kind |-> "transport error"]
HttpError == [kind |-> "non-success status"]
EmptyBody == [kind |-> "empty body"]
Body(base, rates, timestamp) ==
    [kind |-> "body", base |-> base, rates |-> rates, timestamp |-> timestamp]

\* The bodies the endpoint may answer a request for `base` with: a
\* well-formed one, one without rates and one without timestamp (epoch
\* seconds otherwise).
ApiRates == [c \in {"USD", "CNY", "EUR"} |->
                CASE c = "USD" -> RateScale [] c = "CNY" -> 72460 [] c = "EUR" -> 8830]
Responses(base) ==
    {TransportError, HttpError, EmptyBody,
     Body(base, ApiRates, 1), Body(base, Undefined, 1), Body(base, ApiRates, NaN)}

WellFormed(response) ==
    /\ response.kind = "body"
    /\ response.rates # Undefined
    /\ response.timestamp # NaN

\* response.data.timestamp * 1000
Milliseconds(seconds) == IF seconds = NaN THEN NaN ELSE seconds * 1000

\* A settled promise.
Fulfilled(value) == [settled |-> "fulfilled", value |-> value]
Rejected(reason) == [settled |-> "rejected", value |-> [reason |-> reason]]

\* getLatestRates, lines 15-36, once the GET has settled with `response` at
\* time t
getLatestRatesWithoutCatch(baseCurrency, response, t) ==
    IF response.kind = "body"
      THEN Fulfilled(Snapshot(response.base, response.rates,
                              Milliseconds(response.timestamp),
                              "Exchange Rate API"))
      ELSE Rejected(response.kind)

getLatestRates(baseCurrency, response, t) ==
    IF response.kind \in {"transport error", "non-success status"}
      THEN Fulfilled(getFallbackRates(baseCurrency, t))         \* lines 32-35
    ELSE IF response.kind = "empty body"
      THEN Fulfilled(getFallbackRates(baseCurrency, t))         \* lines 31-35
    ELSE Fulfilled(Snapshot(response.base, response.rates,      \* lines 22-29
                            Milliseconds(response.timestamp),
                            "Exchange Rate API"))

\* A caller issues getLatestRates(base); the call is in flight until its GET
\* settles.
CallLatestRates(base) ==
    /\ Idle
    /\ Len(calls) < MaxCalls
    /\ calls' = Append(calls, [fn |-> "getLatestRates", base |-> base,
                               state |-> "pending"])
    /\ last' = [op |-> "getLatestRates", base |-> base]
    /\ UNCHANGED <<storeVars, localStorage, now, ticks, downloads, pc>>

\* The GET of call i settles, in any order among the calls in flight.
LatestRatesSettles(i, response) ==
    /\ Idle
    /\ i \in 1 .. Len(calls)
    /\ calls[i].fn = "getLatestRates"
    /\ calls[i].state = "pending"
    /\ response \in Responses(calls[i].base)
    /\ calls' = [calls EXCEPT ![i] =
                    [fn |-> "getLatestRates", base |-> calls[i].base,
                     state |-> "settled", response |-> response, at |-> now,
                     result |-> getLatestRates(calls[i].base, response, now)]]
    /\ last' = [op |-> "getLatestRates settles", call |-> i]
    /\ UNCHANGED <<storeVars, localStorage, now, ticks, downloads, pc>>

AllResponses == UNION {Responses(base) : base \in Codes}

NextRates ==
    \/ \E base \in Codes : CallLatestRates(base)
    \/ \E i \in 1 .. MaxCalls, response \in AllResponses :
          LatestRatesSettles(i, response)

SpecRates == Init /\ [][NextRates]_vars

SettledCalls == {i \in 1 .. Len(calls) : calls[i].state = "settled"}
NetworkFailed(response) ==
    response.kind \in {"transport error", "non-success status"}

\* C8: when the network call of getLatestRates('USD') fails, the snapshot
\* returned has source 'Fallback Data', base USD and the embedded USD table
\* as its rates, with CNY = 7.2456.
C8_FallbackForUSD ==
    \A i \in SettledCalls :
        (calls[i].base = "USD" /\ NetworkFailed(calls[i].response))
        => /\ calls[i].result.settled = "fulfilled"
           /\ calls[i].result.value.source = "Fallback Data"
           /\ calls[i].result.value.base = "USD"
           /\ calls[i].result.value.rates = MockRatesUSD
           /\ calls[i].result.value.rates["CNY"] = 72456

\* C8's case: a getLatestRates('USD') whose GET failed on the transport, and
\* one whose GET came back with a status outside 2xx.
C8_Witness ==
    /\ \E i \in SettledCalls :
          calls[i].base = "USD" /\ calls[i].response = TransportError
    /\ \E i \in SettledCalls :
          calls[i].base = "USD" /\ calls[i].response = HttpError

\* C9: getLatestRates never rejects; for every outcome of the network call
\* other than a well-formed response (transport error, non-success status,
\* empty body, a body without rates or without timestamp) it returns the
\* fallback snapshot labelled 'Fallback Data'; only a well-formed response
\* gives a snapshot labelled 'Exchange Rate API'.
C9_MalformedFallsBack ==
    \A i \in SettledCalls :
        /\ calls[i].result.settled = "fulfilled"
        /\ ~WellFormed(calls[i].response)
             => calls[i].result.value =
                   getFallbackRates(calls[i].base, calls[i].at)
        /\ calls[i].result.value.source = "Exchange Rate API"
             => WellFormed(calls[i].response)

\* The part of C9 the code keeps: the call never rejects, and a transport
\* error, a non-success status and an empty body all give the fallback
\* snapshot.
C9_NoBodyFallsBack ==
    \A i \in SettledCalls :
        /\ calls[i].result.settled = "fulfilled"
        /\ calls[i].response.kind # "body"
             => calls[i].result.value =
                   getFallbackRates(calls[i].base, calls[i].at)

(***************************************************************************)
(* exchangeRateService.getHistoricalRates: one point fetch per day, all in *)
(* flight at once, gathered by Promise.allSettled.  Chart rates are held   *)
(* in units of 10^-6 (the mock points are rounded by toFixed(6)).  A day   *)
(* is 24 hours; daylight-saving shifts of local midnight are not modelled. *)
(***************************************************************************)
DayMs == 24 * 60 * 60 * 1000

\* date.toISOString().split('T')[0]: the calendar day, as a day number
DateString(timestamp) == timestamp \div DayMs

\* getMockBaseRate, lines 204-214, in units of 1/RateScale
MockBaseRates ==
    [b \in {"USD", "CNY", "EUR", "GBP", "JPY"} |->
        CASE b = "USD" -> [t \in {"CNY", "EUR", "GBP", "JPY"} |->
                 CASE t = "CNY" -> 72456 [] t = "EUR" -> 8829
                   [] t = "GBP" -> 7892 [] t = "JPY" -> 1493200]
          [] b = "CNY" -> [t \in {"USD", "EUR", "GBP", "JPY"} |->
                 CASE t = "USD" -> 1381 [] t = "EUR" -> 1219
                   [] t = "GBP" -> 1090 [] t = "JPY" -> 206120]
          [] b = "EUR" -> [t \in {"USD", "CNY", "GBP", "JPY"} |->
                 CASE t = "USD" -> 11326 [] t = "CNY" -> 82034
                   [] t = "GBP" -> 8943 [] t = "JPY" -> 1692300]
          [] b = "GBP" -> [t \in {"USD", "CNY", "EUR", "JPY"} |->
                 CASE t = "USD" -> 12671 [] t = "CNY" -> 91823
                   [] t = "EUR" -> 11182 [] t = "JPY" -> 1893400]
          [] b = "JPY" -> [t \in {"USD", "CNY", "EUR", "GBP"} |->
                 CASE t = "USD" -> 67 [] t = "CNY" -> 485
                   [] t = "EUR" -> 59 [] t = "GBP" -> 53]]

getMockBaseRate(baseCurrency, targetCurrency) ==
    IF Has(MockBaseRates, baseCurrency)
         /\ Has(MockBaseRates[baseCurrency], targetCurrency)
      THEN MockBaseRates[baseCurrency][targetCurrency]
      ELSE RateScale

\* generateMockDataPoint, lines 186-201.  randomFactor is
\* 1 + (Math.random() - 0.5) * 0.01, here in units of 1/RateScale; the rate
\* is Number(rate.toFixed(6)).
RandomFactors == {RateScale - 50, RateScale + 49}

generateMockDataPoint(baseCurrency, targetCurrency, timestamp, randomFactor) ==
    ChartDataPoint(DateString(timestamp),
                   RoundHalfUp(getMockBaseRate(baseCurrency, targetCurrency)
                                  * randomFactor, 100),
                   timestamp)

\* The bodies the historical endpoint may answer with: rates that hold the
\* target, rates that do not, and no rates at all.
PointResponses(targetCurrency) ==
    {TransportError, HttpError, EmptyBody,
     Body("", [c \in {targetCurrency} |-> 72460], 0),
     Body("", EmptyMap, 0),
     Body("", Undefined, 0)}

\* getHistoricalRateForDate, lines 74-97, once its GET has settled.  Reading
\* rates[target] of an empty body or of missing rates throws inside the try,
\* so the catch answers those as it answers a failed GET.
getHistoricalRateForDateWithoutCatch(baseCurrency, targetCurrency, timestamp, response, randomFactor) ==
    IF response.kind = "body" /\ response.rates # Undefined
      THEN Fulfilled(ChartDataPoint(
               DateString(timestamp),
               IF Has(response.rates, targetCurrency)
                 THEN response.rates[targetCurrency] * 100
                 ELSE 1000000,
               timestamp))
      ELSE Rejected(response.kind)

getHistoricalRateForDate(baseCurrency, targetCurrency, timestamp, response, randomFactor) ==
    IF response.kind = "body" /\ response.rates # Undefined
      THEN Fulfilled(ChartDataPoint(
               DateString(timestamp),
               IF Has(response.rates, targetCurrency)      \* rate || 1
                 THEN response.rates[targetCurrency] * 100
                 ELSE 1000000,
               timestamp))
      ELSE Fulfilled(generateMockDataPoint(baseCurrency, targetCurrency,
                                           timestamp, randomFactor))

\* results.sort((a, b) => a.timestamp - b.timestamp): a stable insertion
\* sort
RECURSIVE InsertByTimestamp(_, _)
InsertByTimestamp(sorted, x) ==
    IF sorted = <<>> THEN <<x>>
    ELSE IF Head(sorted).timestamp <= x.timestamp
      THEN <<Head(sorted)>> \o InsertByTimestamp(Tail(sorted), x)
    ELSE <<x>> \o sorted

RECURSIVE SortByTimestamp(_)
SortByTimestamp(points) ==
    IF points = <<>> THEN <<>>
    ELSE InsertByTimestamp(SortByTimestamp(SubSeq(points, 1, Len(points) - 1)),
                           points[Len(points)])

\* lines 45-57: startDate is today minus `days`, and the i-th promise (from
\* 0) is for startDate plus i days
StartOf(t, days) == t - days * DayMs
PointTimestamp(start, i) == start + i * DayMs
PointCount(days) == IF days > 0 THEN days ELSE 0

\* lines 59-66: the fulfilled results in the promises' order, sorted
SeriesOf(promises) ==
    LET IsFulfilled(p) == p.settled = "fulfilled"
        fulfilled == SelectSeq(promises, IsFulfilled)
    IN  SortByTimestamp([k \in 1 .. Len(fulfilled) |-> fulfilled[k].value])

PendingPromise == [settled |-> "pending", value |-> Undefined]

\* getHistoricalRates up to its await, lines 39-59.  `order` records the
\* order in which the point fetches complete.
CallHistoricalRates(base, target, days) ==
    /\ Idle
    /\ calls = <<>>
    /\ calls' = <<[fn |-> "getHistoricalRates", base |-> base,
                   target |-> target, days |-> days,
                   start |-> StartOf(now, days),
                   promises |-> [k \in 1 .. PointCount(days) |-> PendingPromise],
                   failed |-> {}, order |-> <<>>]>>
    /\ last' = [op |-> "getHistoricalRates", days |-> days]
    /\ UNCHANGED <<storeVars, localStorage, now, ticks, downloads, pc>>

\* The GET of the k-th day settles, in any order among the days.
PointSettles(k, response, randomFactor) ==
    /\ Idle
    /\ calls # <<>>
    /\ calls[1].fn = "getHistoricalRates"
    /\ k \in 1 .. Len(calls[1].promises)
    /\ calls[1].promises[k] = PendingPromise
    /\ response \in PointResponses(calls[1].target)
    /\ LET call == calls[1]
           promise == getHistoricalRateForDate(
                          call.base, call.target,
                          PointTimestamp(call.start, k - 1), response,
                          randomFactor)
           pointFailed == ~(response.kind = "body" /\ response.rates # Undefined)
       IN  calls' = <<[call EXCEPT
                          !.promises[k] = promise,
                          !.failed = IF pointFailed THEN @ \cup {k} ELSE @,
                          !.order = Append(@, k)]>>
    /\ last' = [op |-> "point settles", day |-> k]
    /\ UNCHANGED <<storeVars, localStorage, now, ticks, downloads, pc>>

\* Promise.allSettled resolves once every point promise has settled;
\* getHistoricalRates returns, lines 59-66.
HistoricalRatesReturns ==
    /\ Idle
    /\ calls # <<>>
    /\ calls[1].fn = "getHistoricalRates"
    /\ \A k \in 1 .. Len(calls[1].promises) :
          calls[1].promises[k] # PendingPromise
    /\ calls' = <<>>
    /\ last' = [op |-> "getHistoricalRates returns", call |-> calls[1],
                result |-> SeriesOf(calls[1].promises)]
    /\ UNCHANGED <<storeVars, localStorage, now, ticks, downloads, pc>>

SeriesPairs == {<<"USD", "CNY">>, <<"CNY", "GBP">>}
AllPointResponses == UNION {PointResponses(pair[2]) : pair \in SeriesPairs}

NextSeries ==
    \/ \E pair \in SeriesPairs, days \in -1 .. MaxDays :
          CallHistoricalRates(pair[1], pair[2], days)
    \/ \E k \in 1 .. MaxDays, response \in AllPointResponses,
          randomFactor \in RandomFactors :
          PointSettles(k, response, randomFactor)
    \/ HistoricalRatesReturns

SpecSeries == Init /\ [][NextSeries]_vars

SeriesReturned == last.op = "getHistoricalRates returns"

\* C10: getHistoricalRates(base, target, days) returns exactly `days` points
\* (none for days <= 0), the k-th being the point of the k-th requested day,
\* strictly increasing by timestamp, whichever point fetches failed and in
\* whatever order they completed.
C10_OnePointPerDay ==
    SeriesReturned
    => LET call == last.call
           result == last.result
       IN  /\ Len(result) = (IF call.days > 0 THEN call.days ELSE 0)
           /\ \A k \in 1 .. Len(result) :
                 result[k].timestamp = call.start + (k - 1) * DayMs
           /\ \A k \in 1 .. Len(result) - 1 :
                 result[k].timestamp < result[k + 1].timestamp

\* C10's case: a series of at least 2 days returned after a point fetch
\* failed and after a later day's fetch completed before an earlier day's.
C10_Witness ==
    /\ SeriesReturned
    /\ last.call.days >= 2
    /\ last.call.failed # {}
    /\ last.call.failed # 1 .. last.call.days
    /\ \E i, j \in 1 .. Len(last.call.order) :
          i < j /\ last.call.order[i] > last.call.order[j]

(***************************************************************************)
(* Backup: StorageService's settings, history and currency keys, and       *)
(* exportData / importData with the settings page's handlers.  A           *)
(* JavaScript value read from JSON is tagged with its kind, so that the    *)
(* truthiness tests of importData and the defaults of getItem can be told  *)
(* apart: null and undefined are falsy, [] and {} are truthy.              *)
(***************************************************************************)
JsNull == [kind |-> "null"]
JsUndefined == [kind |-> "undefined"]
JsArray(items) == [kind |-> "array", items |-> items]
JsObject(fields) == [kind |-> "object", fields |-> fields]
JsString(text) == [kind |-> "string", text |-> text]

\* new Date(t).toISOString()
IsoString(t) == [kind |-> "string", iso |-> t]

\* if (x)
Truthy(x) ==
    /\ x.kind \notin {"null", "undefined"}
    /\ ~(x.kind = "string" /\ "text" \in DOMAIN x /\ x.text = "")

\* data.name: undefined when data has no such property
Field(data, name) ==
    IF data.kind = "object" /\ Has(data.fields, name)
      THEN data.fields[name]
      ELSE JsUndefined

\* lines 324-354
saveSettings(storage, value) == SetItem(storage, KEY_SETTINGS, value)
loadSettings(storage) == GetItem(storage, KEY_SETTINGS, JsNull)
saveHistory(storage, history) == SetItem(storage, KEY_HISTORY, history)
loadHistory(storage) == GetItem(storage, KEY_HISTORY, JsArray(<<>>))
clearStoredHistory(storage) == RemoveItem(storage, KEY_HISTORY)
saveCurrencies(storage, list) == SetItem(storage, KEY_CURRENCIES, list)
loadCurrencies(storage) == GetItem(storage, KEY_CURRENCIES, JsNull)

\* clearAllData, lines 417-421
clearAllData(storage) == [k \in DOMAIN storage \ STORAGE_KEYS |-> storage[k]]

\* What the three loads return.
Loads(storage) ==
    [settings |-> loadSettings(storage), history |-> loadHistory(storage),
     currencies |-> loadCurrencies(storage)]

\* exportData, lines 447-456
exportData(storage, t) ==
    JsObject([settings |-> loadSettings(storage),
              history |-> loadHistory(storage),
              currencies |-> loadCurrencies(storage),
              exportedAt |-> IsoString(t)])

\* importData, lines 459-478.  Reading a property of null or undefined
\* throws, which the catch turns into false; nothing else in the try throws.
importDataWithoutHistory(storage, data) ==
    IF data.kind \in {"null", "undefined"}
      THEN [storage |-> storage, result |-> FALSE]
      ELSE LET s1 == IF Truthy(Field(data, "settings"))
                       THEN saveSettings(storage, Field(data, "settings"))
                       ELSE storage
               s3 == IF Truthy(Field(data, "currencies"))
                       THEN saveCurrencies(s1, Field(data, "currencies"))
                       ELSE s1
           IN  [storage |-> s3, result |-> TRUE]

importData(storage, data) ==
    IF data.kind \in {"null", "undefined"}
      THEN [storage |-> storage, result |-> FALSE]
      ELSE LET s1 == IF Truthy(Field(data, "settings"))
                       THEN saveSettings(storage, Field(data, "settings"))
                       ELSE storage
               s2 == IF Truthy(Field(data, "history"))
                       THEN saveHistory(s1, Field(data, "history"))
                       ELSE s1
               s3 == IF Truthy(Field(data, "currencies"))
                       THEN saveCurrencies(s2, Field(data, "currencies"))
                       ELSE s2
           IN  [storage |-> s3, result |-> TRUE]

\* The values a caller persists.
PersistedSettings ==
    {JsObject(DEFAULT_SETTINGS),
     JsObject([DEFAULT_SETTINGS EXCEPT !.decimalPlaces = 0])}
PersistedHistories ==
    {JsArray(<<>>), JsArray(<<AllRecord(1)>>),
     JsArray(<<AllRecord(2), AllRecord(1)>>)}
PersistedCurrencies ==
    {JsArray(DEFAULT_CURRENCIES),
     JsArray(<<Currency("EUR", TRUE, TRUE), Currency("USD", FALSE, FALSE)>>)}

SaveSettings(value) ==
    /\ Idle
    /\ localStorage' = saveSettings(localStorage, value)
    /\ last' = [op |-> "saveSettings"]
    /\ UNCHANGED <<storeVars, now, ticks, calls, downloads, pc>>

SaveHistory(history) ==
    /\ Idle
    /\ localStorage' = saveHistory(localStorage, history)
    /\ last' = [op |-> "saveHistory"]
    /\ UNCHANGED <<storeVars, now, ticks, calls, downloads, pc>>

SaveCurrencies(list) ==
    /\ Idle
    /\ localStorage' = saveCurrencies(localStorage, list)
    /\ last' = [op |-> "saveCurrencies"]
    /\ UNCHANGED <<storeVars, now, ticks, calls, downloads, pc>>

\* StorageService.clearHistory, lines 343-345
ClearStoredHistory ==
    /\ Idle
    /\ localStorage' = clearStoredHistory(localStorage)
    /\ last' = [op |-> "StorageService.clearHistory"]
    /\ UNCHANGED <<storeVars, now, ticks, calls, downloads, pc>>

\* handleExportData, SettingsPage lines 80-101: the file holds
\* JSON.stringify(exportData()).  `from` remembers the storage the file was
\* exported from; the program keeps no such thing.
HandleExportData ==
    /\ Idle
    /\ downloads' = [kind |-> "file", data |-> exportData(localStorage, now),
                     from |-> localStorage]
    /\ last' = [op |-> "handleExportData"]
    /\ UNCHANGED <<storeVars, localStorage, now, ticks, calls, pc>>

\* The store's persist options, part_002 lines 203-211: after every set
\* the middleware writes the partialized state under name, which is
\* STORAGE_KEYS.SETTINGS, the key saveSettings uses as well.
partialize(state) ==
    [currencies |-> state.currencies,
     conversionHistory |-> state.conversionHistory,
     settings |-> state.settings,
     chartData |-> state.chartData]

PersistedState(state) ==
    JsObject([state |-> partialize(state), version |-> 0])

PersistWrite(storage, state) ==
    SetItem(storage, KEY_SETTINGS, PersistedState(state))

\* handleClearAllData, SettingsPage lines 129-136, once confirmed:
\* storageService.clearAllData(), then the store's clearHistory(), whose set
\* makes the middleware write the store again; the reload is scheduled.
HandleClearAllData ==
    /\ Idle
    /\ conversionHistory' = <<>>
    /\ localStorage' =
          PersistWrite(clearAllData(localStorage),
                       [currencies |-> currencies,
                        conversionHistory |-> <<>>,
                        settings |-> settings,
                        chartData |-> chartData])
    /\ pc' = [at |-> "reload"]
    /\ last' = [op |-> "handleClearAllData"]
    /\ UNCHANGED <<currencies, exchangeRates, amounts, settings, isLoading,
                   error, chartData, pending, now, ticks, calls, downloads>>

\* What the middleware finds under its name when the store is created: the
\* state of a blob it wrote, nothing otherwise.
StoredState(storage) ==
    LET item == GetItem(storage, KEY_SETTINGS, JsNull)
    IN  IF item.kind = "object" /\ Has(item.fields, "state")
          THEN item.fields.state
          ELSE EmptyMap

\* window.location.reload(), SettingsPage line 134: the store is created
\* anew (part_002 lines 9-20) and the persisted fields are merged over it.
Reload ==
    /\ pc.at = "reload"
    /\ LET stored == StoredState(localStorage)
       IN  /\ currencies' = IF Has(stored, "currencies")
                              THEN stored.currencies ELSE DEFAULT_CURRENCIES
           /\ conversionHistory' = IF Has(stored, "conversionHistory")
                                     THEN stored.conversionHistory ELSE <<>>
           /\ settings' = IF Has(stored, "settings")
                            THEN stored.settings ELSE DEFAULT_SETTINGS
           /\ chartData' = IF Has(stored, "chartData")
                             THEN stored.chartData ELSE EmptyMap
    /\ exchangeRates' = NoSnapshot
    /\ amounts' = EmptyMap
    /\ isLoading' = FALSE
    /\ error' = NoError
    /\ pending' = <<>>
    /\ pc' = [at |-> "idle"]
    /\ last' = [op |-> "reload"]
    /\ UNCHANGED <<localStorage, now, ticks, calls, downloads>>

\* The application is opened in a browser profile whose storage holds
\* nothing; a downloaded file stays where it is.
OpenFreshProfile ==
    /\ Idle
    /\ localStorage # EmptyMap
    /\ localStorage' = EmptyMap
    /\ last' = [op |-> "fresh profile"]
    /\ UNCHANGED <<storeVars, now, ticks, calls, downloads, pc>>

\* The files a user can pick: text that is not JSON, the JSON text null, a
\* backup whose history is not a list next to well-formed settings, and a
\* backup that holds currencies only.
Unparsable == [kind |-> "unparsable"]
MalformedBackup ==
    JsObject([settings |-> JsObject(DEFAULT_SETTINGS),
              history |-> JsString("not a list")])
PartialBackup == JsObject([currencies |-> JsArray(DEFAULT_CURRENCIES)])
OtherFiles == {Unparsable, JsNull, MalformedBackup, PartialBackup}

PickableFiles ==
    OtherFiles \cup (IF downloads = NoFile THEN {} ELSE {downloads.data})

\* handleImportData, SettingsPage lines 104-126: JSON.parse of the file's
\* text, then importData, whose result is not looked at.  last.keysBefore
\* is the set of keys the storage held when the import began.
HandleImportData(file) ==
    /\ Idle
    /\ file \in PickableFiles
    /\ IF file = Unparsable
         THEN /\ UNCHANGED localStorage
              /\ last' = [op |-> "handleImportData", file |-> file,
                          keysBefore |-> DOMAIN localStorage,
                          imported |-> FALSE, toast |-> "error"]
         ELSE LET r == importData(localStorage, file)
              IN  /\ localStorage' = r.storage
                  /\ last' = [op |-> "handleImportData", file |-> file,
                              keysBefore |-> DOMAIN localStorage,
                              imported |-> r.result, toast |-> "success"]
    /\ UNCHANGED <<storeVars, now, ticks, calls, downloads, pc>>

NextBackup ==
    \/ \E value \in PersistedSettings : SaveSettings(value)
    \/ \E history \in PersistedHistories : SaveHistory(history)
    \/ \E list \in PersistedCurrencies : SaveCurrencies(list)
    \/ ClearStoredHistory
    \/ HandleExportData
    \/ HandleClearAllData
    \/ Reload
    \/ OpenFreshProfile
    \/ \E file \in PickableFiles : HandleImportData(file)

SpecBackup == Init /\ [][NextBackup]_vars

\* The step imports the downloaded backup into a storage that holds nothing.
RestoresBackup ==
    /\ last'.op = "handleImportData"
    /\ downloads # NoFile
    /\ last'.file = downloads.data
    /\ localStorage = EmptyMap

\* C11: importing an exported backup into an empty storage makes
\* loadSettings, loadHistory and loadCurrencies return what they returned
\* when the backup was exported.
C11_RoundTrip ==
    [][RestoresBackup => Loads(localStorage') = Loads(downloads.from)]_vars

\* C11's case: a backup exported from a storage holding settings, a
\* non-empty history and a currency list was imported into an emptied
\* storage.
C11_Witness ==
    /\ last.op = "handleImportData"
    /\ downloads # NoFile
    /\ last.file = downloads.data
    /\ STORAGE_KEYS \cap DOMAIN downloads.from =
          {KEY_SETTINGS, KEY_HISTORY, KEY_CURRENCIES}
    /\ loadHistory(downloads.from).kind = "array"
    /\ loadHistory(downloads.from).items # <<>>
    /\ last.keysBefore = {}
    /\ Loads(localStorage) = Loads(downloads.from)

\* A backup in which a present field does not have the shape it should have:
\* settings an object, history and currencies lists.
MalformedField(data, name, kind) ==
    /\ Field(data, name).kind \notin {"undefined", "null"}
    /\ Field(data, name).kind # kind

Malformed(data) ==
    /\ data.kind = "object"
    /\ \/ MalformedField(data, "settings", "object")
       \/ MalformedField(data, "history", "array")
       \/ MalformedField(data, "currencies", "array")

\* C15: an import of a backup with a malformed field is rejected (importData
\* answers false and the page reports the failure) and leaves every
\* persisted key as it was.
C15_MalformedRejected ==
    [][(last'.op = "handleImportData" /\ Malformed(last'.file))
       => /\ localStorage' = localStorage
          /\ last'.imported = FALSE
          /\ last'.toast = "error"]_vars

\* What the code does with such a backup: it stores every truthy field as it
\* is, the malformed one included, and reports success.
C15_MalformedStored ==
    [][(last'.op = "handleImportData" /\ Malformed(last'.file))
       => /\ loadHistory(localStorage') = Field(last'.file, "history")
          /\ loadSettings(localStorage') = Field(last'.file, "settings")
          /\ last'.imported = TRUE
          /\ last'.toast = "success"]_vars

(***************************************************************************)
(* convertCurrency (store), lines 105-132.                                 *)
(***************************************************************************)
\* lines 110-111: 1 for the snapshot's base, else rates[code]; 0 stands for
\* a missing rate (undefined), which is falsy as 0 is.
RateOf(snapshot, code) ==
    IF code = snapshot.base THEN RateScale
    ELSE IF Has(snapshot.rates, code) THEN snapshot.rates[code]
    ELSE 0

\* if (!exchangeRates) return; ... if (fromRate && toRate)
Converts(snapshot, fromCurrency, toCurrency) ==
    /\ snapshot # NoSnapshot
    /\ RateOf(snapshot, fromCurrency) # 0
    /\ RateOf(snapshot, toCurrency) # 0

\* lines 114-128: convertedAmount is (amount / fromRate) * toRate and the
\* exchangeRate is toRate / fromRate
ConvertedRecordUnrounded(snapshot, fromCurrency, toCurrency, amount, dp, t) ==
    LET fromRate == RateOf(snapshot, fromCurrency)
        toRate == RateOf(snapshot, toCurrency)
    IN  ConversionRecord(t, fromCurrency, toCurrency, amount,
                         toFixed(amount * toRate, fromRate, AmountDigits),
                         Ratio(toRate, fromRate), t, snapshot.source)

\* (a variant that multiplies the amount by toRate alone)
ConvertedRecordFromBase(snapshot, fromCurrency, toCurrency, amount, dp, t) ==
    LET fromRate == RateOf(snapshot, fromCurrency)
        toRate == RateOf(snapshot, toCurrency)
    IN  ConversionRecord(t, fromCurrency, toCurrency, amount,
                         toFixed(amount * toRate, RateScale, dp),
                         Ratio(toRate, fromRate), t, snapshot.source)

ConvertedRecord(snapshot, fromCurrency, toCurrency, amount, dp, t) ==
    LET fromRate == RateOf(snapshot, fromCurrency)
        toRate == RateOf(snapshot, toCurrency)
    IN  ConversionRecord(t, fromCurrency, toCurrency, amount,
                         toFixed(amount * toRate, fromRate, dp),
                         Ratio(toRate, fromRate), t, snapshot.source)

\* The history after convertCurrency called at time t.
HistoryAfterConvert(history, snapshot, fromCurrency, toCurrency, amount, dp, t) ==
    IF Converts(snapshot, fromCurrency, toCurrency)
      THEN NewHistory(ConvertedRecord(snapshot, fromCurrency, toCurrency,
                                      amount, dp, t),
                      history)
      ELSE history

MaxRecords == 1       \* records convertCurrency appends before a clear

ConvertCurrency(fromCurrency, toCurrency, amount) ==
    /\ Idle
    /\ Len(conversionHistory) < MaxRecords
    /\ conversionHistory' =
          HistoryAfterConvert(conversionHistory, exchangeRates, fromCurrency,
                              toCurrency, amount, settings.decimalPlaces, now)
    /\ last' = [op |-> "convertCurrency", fromCurrency |-> fromCurrency,
                toCurrency |-> toCurrency, amount |-> amount]
    /\ UNCHANGED <<currencies, exchangeRates, amounts, settings, isLoading,
                   error, chartData, pending, localStorage, now, ticks,
                   calls, downloads, pc>>

\* A snapshot holding a negative rate, as an unvalidated response can.
SnapNegative ==
    Snapshot("USD",
             [c \in {"CNY", "EUR"} |->
                 CASE c = "CNY" -> 72456
                   [] c = "EUR" -> 0 - 8829],
             0, "Exchange Rate API")

ConvertSnapshots == {SnapUSD, SnapEUR, SnapNegative}
ConvertAmounts == {Unit + 1}

NextConvert ==
    \/ \E from \in Codes, to \in Codes, amount \in ConvertAmounts :
          ConvertCurrency(from, to, amount)
    \/ \E rates \in ConvertSnapshots : SetExchangeRates(rates)
    \/ \E dp \in DecimalChoices : UpdateSettings([decimalPlaces |-> dp])
    \/ exchangeRates = NoSnapshot /\ SetAmount("USD", Unit)
    \/ ClearConversionHistory

SpecConvert == Init /\ [][NextConvert]_vars

\* The rate of a currency is missing, zero or negative (the base counts as 1).
NoPositiveRate(snapshot, code) == RateOf(snapshot, code) <= 0

ConvertStep == last'.op = "convertCurrency"

\* C12: a convertCurrency step appends no record and changes no state when
\* the snapshot is absent, or when the rate of `from` or of `to` is missing,
\* zero or negative.
C12_SilentWithoutRates ==
    [][(/\ ConvertStep
        /\ \/ exchangeRates = NoSnapshot
           \/ NoPositiveRate(exchangeRates, last'.fromCurrency)
           \/ NoPositiveRate(exchangeRates, last'.toCurrency))
       => /\ conversionHistory' = conversionHistory
          /\ storeVars' = storeVars]_vars

\* What the code's test (fromRate && toRate) gives: nothing is appended and
\* nothing changes when the snapshot is absent or a rate is missing or zero.
C12_SilentWithoutNonZeroRates ==
    [][(/\ ConvertStep
        /\ \/ exchangeRates = NoSnapshot
           \/ RateOf(exchangeRates, last'.fromCurrency) = 0
           \/ RateOf(exchangeRates, last'.toCurrency) = 0)
       => storeVars' = storeVars]_vars

\* C19: a convertCurrency step under a snapshot with positive rates for both
\* currencies (the base counting as 1) appends exactly one record, with
\* exchangeRate rate(to) / rate(from) and toAmount
\* (amount / rate(from)) * rate(to) rounded to decimalPlaces, and leaves
\* amounts (and everything but the history) unchanged.
C19_ConvertAppendsOne ==
    [][(/\ ConvertStep
        /\ exchangeRates # NoSnapshot
        /\ RateOf(exchangeRates, last'.fromCurrency) > 0
        /\ RateOf(exchangeRates, last'.toCurrency) > 0)
       => LET rf == RateOf(exchangeRates, last'.fromCurrency)
              rt == RateOf(exchangeRates, last'.toCurrency)
              record == conversionHistory'[1]
          IN  /\ conversionHistory' # <<>>
              /\ Tail(conversionHistory')
                    = Take(conversionHistory, HistoryCap - 1)
              /\ record.fromCurrency = last'.fromCurrency
              /\ record.toCurrency = last'.toCurrency
              /\ record.fromAmount = last'.amount
              /\ record.exchangeRate.num * rf = record.exchangeRate.den * rt
              /\ record.toAmount =
                    toFixed(last'.amount * rt, rf, settings.decimalPlaces)
              /\ amounts' = amounts
              /\ <<currencies, exchangeRates, settings, isLoading, error,
                   chartData, pending>>'
                   = <<currencies, exchangeRates, settings, isLoading, error,
                       chartData, pending>>]_vars

\* C19's case: a conversion between two non-base currencies whose quotient
\* had to be rounded, appended while amounts held entries.
C19_Witness ==
    /\ last.op = "convertCurrency"
    /\ exchangeRates # NoSnapshot
    /\ last.fromCurrency # exchangeRates.base
    /\ last.toCurrency # exchangeRates.base
    /\ last.fromCurrency # last.toCurrency
    /\ RateOf(exchangeRates, last.fromCurrency) > 0
    /\ RateOf(exchangeRates, last.toCurrency) > 0
    /\ conversionHistory # <<>>
    /\ conversionHistory[1].fromCurrency = last.fromCurrency
    /\ conversionHistory[1].toCurrency = last.toCurrency
    /\ conversionHistory[1].toAmount * RateOf(exchangeRates, last.fromCurrency)
          # last.amount * RateOf(exchangeRates, last.toCurrency)
    /\ DOMAIN amounts # {}

(***************************************************************************)
(* handleAmountChange (conversion page), lines 53-79: setAmount, one       *)
(* convertCurrency per other tracked currency, then the ALL record.  The   *)
(* handler runs without yielding; the millisecond clock may advance once   *)
(* while it runs.  Two edits are at least a millisecond apart.             *)
(***************************************************************************)
\* The time of the k-th record of an edit begun at t0, when the clock
\* advances just before record tickAt (0: it does not advance).
RecordTime(t0, tickAt, k) == t0 + (IF tickAt # 0 /\ k >= tickAt THEN 1 ELSE 0)

\* lines 62-66: currencies.forEach(target => convertCurrency(...)), from the
\* k-th target on
RECURSIVE ConvertToEach(_, _, _, _, _, _, _, _, _)
ConvertToEach(history, targets, k, snapshot, currency, amount, dp, t0, tickAt) ==
    IF k > Len(targets) THEN history
    ELSE ConvertToEach(
             HistoryAfterConvert(history, snapshot, currency, targets[k],
                                 amount, dp, RecordTime(t0, tickAt, k)),
             targets, k + 1, snapshot, currency, amount, dp, t0, tickAt)

\* lines 69-78: the record for the edit as a whole
EditRecord(snapshot, currency, amount, t) ==
    LET rate == IF snapshot # NoSnapshot /\ Has(snapshot.rates, currency)
                     /\ snapshot.rates[currency] # 0
                  THEN snapshot.rates[currency]
                  ELSE RateScale
        source == IF snapshot # NoSnapshot THEN snapshot.source ELSE "Unknown"
    IN  ConversionRecord(t, currency, "ALL", amount, 0,
                         Ratio(rate, RateScale), t, source)

\* The codes of the tracked currencies other than `currency`, in list order.
TargetsOf(list, currency) ==
    LET others == WithoutCurrency(list, currency)
    IN  [k \in 1 .. Len(others) |-> others[k].code]

HandleAmountChange(currency, amount, tickAt) ==
    /\ Idle
    /\ ticks < MaxTicks
    /\ ticks' = ticks + 1
    /\ amounts' = NewAmounts(amounts, exchangeRates, currency, amount,
                             settings.decimalPlaces)
    /\ LET t0 == now + 1
           targets == TargetsOf(currencies, currency)
           n == Len(targets)
       IN  IF amount > 0 /\ currency \in CodesOf(currencies)
             THEN /\ tickAt \in 0 .. n + 1
                  /\ conversionHistory' =
                        NewHistory(
                            EditRecord(exchangeRates, currency, amount,
                                       RecordTime(t0, tickAt, n + 1)),
                            ConvertToEach(conversionHistory, targets, 1,
                                          exchangeRates, currency, amount,
                                          settings.decimalPlaces, t0, tickAt))
                  /\ now' = RecordTime(t0, tickAt, n + 1)
             ELSE /\ tickAt = 0
                  /\ UNCHANGED conversionHistory
                  /\ now' = t0
    /\ last' = [op |-> "handleAmountChange", currency |-> currency,
                amount |-> amount, began |-> now + 1]
    /\ UNCHANGED <<currencies, exchangeRates, settings, isLoading, error,
                   chartData, pending, localStorage, calls, downloads, pc>>

EditedCodes == {"USD", "CNY"}
EditAmounts == {0, Unit + 1}

NextEdits ==
    \/ \E currency \in EditedCodes, amount \in EditAmounts,
          tickAt \in 0 .. Len(DEFAULT_CURRENCIES) :
          HandleAmountChange(currency, amount, tickAt)
    \/ SetExchangeRates(SnapUSD)

SpecEdits == Init /\ [][NextEdits]_vars

\* C13: every record of conversionHistory has an id different from every
\* other record's, and ids increase in creation order (the history is
\* newest first), also among the records of a single amount edit.
C13_IdsUniqueIncreasing ==
    \A i, j \in 1 .. Len(conversionHistory) :
        i < j => conversionHistory[i].id > conversionHistory[j].id

\* What does hold: an id is never smaller than the id of a record created
\* before it, and records of different edits have different ids.
C13_IdsNeverDecrease ==
    \A i, j \in 1 .. Len(conversionHistory) :
        i < j => conversionHistory[i].id >= conversionHistory[j].id

(***************************************************************************)
(* The loading flag: refreshExchangeRates (store, lines 58-71),            *)
(* fetchHistoricalData (store, lines 175-201) and the charts page's        *)
(* loadHistoricalData (ChartsPage, lines 31-46).  A request is in          *)
(* `pending` from the call until its await resumes; requests resume in any *)
(* order.                                                                  *)
(***************************************************************************)
\* lines 181-188
daysMap ==
    [r \in {"1D", "7D", "30D", "90D", "1Y"} |->
        CASE r = "1D" -> 1 [] r = "7D" -> 7 [] r = "30D" -> 30
          [] r = "90D" -> 90 [] r = "1Y" -> 365]

\* `${baseCurrency}/${targetCurrency}`, kept as the pair it renders
PairKey(baseCurrency, targetCurrency) == <<baseCurrency, targetCurrency>>

HistoryRequest(base, target, timeRange) ==
    [kind |-> "history", base |-> base, target |-> target,
     days |-> daysMap[timeRange]]

\* refreshExchangeRates up to its await, lines 59-63
RefreshExchangeRates ==
    /\ Idle
    /\ Len(pending) < MaxCalls
    /\ isLoading' = TRUE
    /\ error' = NoError
    /\ pending' = Append(pending, RefreshRequest(settings.defaultBaseCurrency))
    /\ last' = [op |-> "refreshExchangeRates"]
    /\ UNCHANGED <<currencies, exchangeRates, amounts, conversionHistory,
                   settings, chartData, localStorage, now, ticks, calls,
                   downloads, pc>>

\* line 64: set({ exchangeRates: rates, isLoading: false }).  The store
\* keeps no request identity: the resolved rates are written whether or not
\* a refresh issued later is still in flight.
\* (a variant that drops the result of a superseded refresh)
SnapshotAfterRefreshUnlessSuperseded(current, rates, laterInFlight) ==
    IF laterInFlight THEN current ELSE rates

SnapshotAfterRefresh(current, rates, laterInFlight) == rates

\* refreshExchangeRates after its await, lines 63-70
RefreshSettles(i, response) ==
    /\ Idle
    /\ i \in 1 .. Len(pending)
    /\ pending[i].kind = "refresh"
    /\ response \in Responses(pending[i].base)
    /\ LET result == getLatestRates(pending[i].base, response, now)
       IN  IF result.settled = "fulfilled"
             THEN /\ exchangeRates' =
                        SnapshotAfterRefresh(exchangeRates, result.value,
                                             i < Len(pending))
                  /\ UNCHANGED error
             ELSE /\ error' = result.value.reason
                  /\ UNCHANGED exchangeRates
    /\ isLoading' = FALSE
    /\ pending' = RemoveAt(pending, i)
    /\ last' = [op |-> "refreshExchangeRates resumes", request |-> pending[i],
                response |-> response, superseded |-> i < Len(pending)]
    /\ UNCHANGED <<currencies, amounts, conversionHistory, settings,
                   chartData, localStorage, now, ticks, calls, downloads, pc>>

\* loadHistoricalData up to its await: setLoading(true), then
\* fetchHistoricalData up to its own await (store lines 176-190)
LoadHistoricalData(base, target, timeRange) ==
    /\ Idle
    /\ Len(pending) < MaxCalls
    /\ isLoading' = TRUE
    /\ error' = NoError
    /\ pending' = Append(pending, HistoryRequest(base, target, timeRange))
    /\ last' = [op |-> "loadHistoricalData", pair |-> PairKey(base, target)]
    /\ UNCHANGED <<currencies, exchangeRates, amounts, conversionHistory,
                   settings, chartData, localStorage, now, ticks, calls,
                   downloads, pc>>

\* The series getHistoricalRates answers when every point fetch settles
\* with the same response and noise.
UniformSeries(base, target, days, t, response, randomFactor) ==
    SeriesOf([k \in 1 .. PointCount(days) |->
                 getHistoricalRateForDate(
                     base, target, PointTimestamp(StartOf(t, days), k - 1),
                     response, randomFactor)])

\* fetchHistoricalData after its await (store lines 190-193): setChartData
\* and the flag; then loadHistoricalData's finally, setLoading(false).
\* getHistoricalRates does not reject, so the catch of lines 194-200 is not
\* entered.
HistorySettles(i, response, randomFactor) ==
    /\ Idle
    /\ i \in 1 .. Len(pending)
    /\ pending[i].kind = "history"
    /\ response \in PointResponses(pending[i].target)
    /\ chartData' =
          Put(chartData, PairKey(pending[i].base, pending[i].target),
              UniformSeries(pending[i].base, pending[i].target,
                            pending[i].days, now, response, randomFactor))
    /\ isLoading' = FALSE
    /\ pending' = RemoveAt(pending, i)
    /\ last' = [op |-> "loadHistoricalData resumes",
                pair |-> PairKey(pending[i].base, pending[i].target)]
    /\ UNCHANGED <<currencies, exchangeRates, amounts, conversionHistory,
                   settings, error, localStorage, now, ticks, calls,
                   downloads, pc>>

LoadingBases == {"USD", "CNY"}
ChartRanges == {"1D", "7D"}
RefreshResponses == {TransportError} \cup {Body(b, ApiRates, 1) : b \in LoadingBases}
SeriesResponses == {TransportError, Body("", [c \in {"CNY"} |-> 72460], 0)}

NextLoading ==
    \/ RefreshExchangeRates
    \/ /\ Len(pending) < MaxCalls
       /\ \E base \in LoadingBases :
              UpdateSettings([defaultBaseCurrency |-> base])
    \/ \E range \in ChartRanges : LoadHistoricalData("USD", "CNY", range)
    \/ \E i \in 1 .. MaxCalls, response \in RefreshResponses :
          RefreshSettles(i, response)
    \/ \E i \in 1 .. MaxCalls, response \in SeriesResponses :
          HistorySettles(i, response, RateScale - 50)

SpecLoading == Init /\ [][NextLoading]_vars

InFlight == pending # <<>>

\* C14: isLoading is true in every state in which a rate refresh or a
\* historical-series fetch is in flight, and false in every state in which
\* none is, also when two of them overlap.
C14_LoadingWhileInFlight == isLoading <=> InFlight

\* What does hold: the flag is false whenever nothing is in flight, and it
\* is true while the only request in flight is the one issued last.
C14_IdleMeansNotLoading == ~InFlight => ~isLoading

(***************************************************************************)
(* The tracked list under the store's four list operations and the two     *)
(* reorder handlers.                                                       *)
(***************************************************************************)
\* setCurrencies, lines 22-24
SetCurrencies(list) ==
    /\ Idle
    /\ currencies' = list
    /\ last' = [op |-> "setCurrencies"]
    /\ UNCHANGED <<exchangeRates, amounts, conversionHistory, settings,
                   isLoading, error, chartData, pending, localStorage, now,
                   ticks, calls, downloads, pc>>

\* handleCurrencyReorder (conversion page, lines 98-100): the grid hands
\* over the tracked Currency records in their new order and the handler
\* passes reorderedCurrencies.map(c => c.code), the codes, to
\* updateCurrencyOrder.  The grid reorders lists of Currency records.
HandleCurrencyReorder(source, destination) ==
    /\ Idle
    /\ \A i \in 1 .. Len(currencies) : "code" \in DOMAIN currencies[i]
    /\ source \in 1 .. Len(currencies)
    /\ destination \in 1 .. Len(currencies)
    /\ LET reorderedCurrencies == Moved(currencies, source, destination)
       IN  StoreUpdateCurrencyOrder(
               [i \in 1 .. Len(reorderedCurrencies) |->
                   CodeString(reorderedCurrencies[i].code)])
    /\ last' = [op |-> "handleCurrencyReorder"]
    /\ UNCHANGED <<localStorage, now, ticks, downloads, calls, pc>>

\* Lists a caller of setCurrencies passes: the defaults and a shorter list.
TrackedLists ==
    {DEFAULT_CURRENCIES,
     <<Currency("CNY", TRUE, TRUE), Currency("USD", TRUE, FALSE)>>}

NextTracked ==
    \/ \E list \in TrackedLists : SetCurrencies(list)
    \/ \E code \in Codes : HandleAddCurrency(code)
    \/ \E code \in Codes : HandleRemoveCurrency(code)
    \/ \E source, destination \in 0 .. Cardinality(Codes) :
          HandleDragEnd(source, destination)
    \/ \E source, destination \in 1 .. Cardinality(Codes) :
          HandleCurrencyReorder(source, destination)

SpecTracked == Init /\ [][NextTracked]_vars

\* C16: no two entries of the tracked list have the same code.
C16_UniqueCodes ==
    \A i, j \in 1 .. Len(currencies) :
        i # j => CodeOf(currencies[i]) # CodeOf(currencies[j])

\* What does hold: while every entry is a Currency record, no two of them
\* have the same code.
C16_UniqueAmongRecords ==
    (\A i \in 1 .. Len(currencies) : "code" \in DOMAIN currencies[i])
    => C16_UniqueCodes

\* C17: when the network call fails and the requested base has no entry in
\* the embedded fallback table (any base but USD and CNY), getLatestRates
\* returns a 'Fallback Data' snapshot whose rates are the USD-keyed table.
C17_FallbackDefaultsToUSD ==
    \A i \in SettledCalls :
        (calls[i].base \notin DOMAIN mockRates /\ NetworkFailed(calls[i].response))
        => /\ calls[i].result.settled = "fulfilled"
           /\ calls[i].result.value.source = "Fallback Data"
           /\ calls[i].result.value.rates = MockRatesUSD

\* C17's case: a failed getLatestRates for EUR, which has no fallback table.
C17_Witness ==
    \E i \in SettledCalls :
        /\ calls[i].base = "EUR"
        /\ NetworkFailed(calls[i].response)
        /\ calls[i].result.value.base = "EUR"
        /\ calls[i].result.value.rates = mockRates["USD"]

(***************************************************************************)
(* Settings: updateSettings with the partials a caller can hand it, and    *)
(* the refresh-interval slider of the settings page.                       *)
(***************************************************************************)
\* SettingsPage.tsx lines 68-71; the slider (lines 328-335) offers the
\* whole numbers from min to max.
SliderMin == 1
SliderMax == 60

HandleRefreshIntervalChange(refreshInterval) ==
    UpdateSettings([refreshInterval |-> refreshInterval])

\* Partial<UserSettings> values of the two numeric fields: any number.
IntervalChoices == {SliderMin - 1, SliderMin, SliderMax, SliderMax + 1}
DecimalPartials == -1 .. MaxDecimals

\* defaultBaseCurrency is a string: a currency code or, as nothing checks
\* it, any other string, the empty one included.
BaseChoices == {"USD", "CNY", ""}

NextSettings ==
    \/ \E dp \in DecimalPartials : UpdateSettings([decimalPlaces |-> dp])
    \/ \E m \in IntervalChoices : UpdateSettings([refreshInterval |-> m])
    \/ \E dp \in DecimalPartials, m \in IntervalChoices :
           UpdateSettings([decimalPlaces |-> dp, refreshInterval |-> m])
    \/ \E m \in {SliderMin, SliderMax} : HandleRefreshIntervalChange(m)
    \/ \E base \in BaseChoices :
           /\ Len(pending) < MaxCalls
           /\ UpdateSettings([defaultBaseCurrency |-> base])
    \/ \E base \in BaseChoices, dp \in DecimalChoices :
           /\ Len(pending) < MaxCalls
           /\ UpdateSettings([defaultBaseCurrency |-> base,
                              decimalPlaces |-> dp])

SpecSettings == Init /\ [][NextSettings]_vars

\* C18: settings.decimalPlaces is at least 0 and settings.refreshInterval
\* lies between 1 and 60 minutes, whatever updateSettings calls were made.
C18_SettingsInRange ==
    /\ settings.decimalPlaces >= 0
    /\ settings.refreshInterval >= SliderMin
    /\ settings.refreshInterval <= SliderMax

\* What does hold: updateSettings stores the numbers it is given, so the
\* settings stay in range as long as every partial was in range.
C18_StoresWhatItIsGiven ==
    [][last'.op = "updateSettings"
       => \A f \in DOMAIN last'.partial : settings'[f] = last'.partial[f]]_vars

(***************************************************************************)
(* Amounts against the active snapshot, over edits, snapshot replacements  *)
(* and decimalPlaces changes (SpecAmounts).                                *)
(***************************************************************************)
\* The amounts entries of the snapshot's codes are the ones one edit
\* setAmount(c, X) derives under the snapshot: anchor * rate(code) rounded
\* to dp decimals; the edited entry itself may be X as typed.
DerivedFromAnchor(snapshot, c, X, dp) ==
    /\ BaseRate(snapshot, c) # 0
    /\ \A code \in DOMAIN snapshot.rates \cap DOMAIN amounts :
          \/ amounts[code] =
                toFixed(X * snapshot.rates[code], BaseRate(snapshot, c), dp)
          \/ code = c /\ amounts[code] = X

\* C20: every amounts entry for a code of the active snapshot's rates is the
\* value one single anchor edit derives under that snapshot
\* (anchor * rate(code), rounded), after any edits and snapshot changes.
C20_OneAnchorDerivesAll ==
    (exchangeRates # NoSnapshot
       /\ DOMAIN exchangeRates.rates \cap DOMAIN amounts # {})
    => \E c \in Codes, X \in AmountInputs, dp \in DecimalChoices :
           DerivedFromAnchor(exchangeRates, c, X, dp)

\* What does hold: in the state right after an edit that propagates, the
\* edit itself is such an anchor.
C20_AnchoredRightAfterEdit ==
    (/\ EditDone
     /\ Propagates(exchangeRates, last.amount)
     /\ BaseRate(exchangeRates, last.currency) # 0)
    => DerivedFromAnchor(exchangeRates, last.currency, last.amount,
                         settings.decimalPlaces)

(***************************************************************************)
(* The frame of an amount edit (SpecAmounts).                              *)
(***************************************************************************)
\* The entry of code is the same, or as absent, after the step as before.
KeepsAmount(code) ==
    /\ Has(amounts', code) <=> Has(amounts, code)
    /\ Has(amounts, code) => amounts'[code] = amounts[code]

\* A setAmount step taken while a snapshot is present.
EditUnderSnapshot == last'.op = "setAmount" /\ exchangeRates # NoSnapshot

\* C21 as stated: an amount edit leaves unchanged the amount of every
\* currency, other than the edited one, whose code is absent from the
\* snapshot's rates.
C21_KeepsAllOutsideRates ==
    [][EditUnderSnapshot
       => \A code \in Codes \ {last'.currency} :
             code \notin DOMAIN exchangeRates.rates => KeepsAmount(code)]_vars

\* C21: an amount edit leaves unchanged the amount of every currency, other
\* than the edited one and the snapshot's base, whose code is absent from
\* the snapshot's rates; none is zeroed or recomputed.
C21_KeepsOutsideRatesButBase ==
    [][EditUnderSnapshot
       => \A code \in Codes \ {last'.currency, exchangeRates.base} :
             code \notin DOMAIN exchangeRates.rates => KeepsAmount(code)]_vars

\* C21's case: a propagating edit of USD under a snapshot without a GBP
\* rate has derived the CNY amount, and GBP holds the amount typed earlier.
C21_Witness ==
    /\ EditDone
    /\ last.currency = "USD"
    /\ Propagates(exchangeRates, last.amount)
    /\ exchangeRates = SnapUSD
    /\ Has(amounts, "CNY")
    /\ amounts["CNY"] = toFixed(last.amount * SnapUSD.rates["CNY"], RateScale,
                                settings.decimalPlaces)
    /\ Has(amounts, "GBP")
    /\ amounts["GBP"] = Unit + 1

(***************************************************************************)
(* Overlapping refreshes (SpecLoading).                                    *)
(***************************************************************************)
\* The state right after a refreshExchangeRates resumed from its await.
RefreshResumed == last.op = "refreshExchangeRates resumes"

\* What getLatestRates answered the request that has just resumed.
ResumedRates == getLatestRates(last.request.base, last.response, now).value

\* C22: a refresh that resolves applies its result whether or not a later
\* refresh was issued in the meantime, also when it is the last to resolve:
\* the store then holds the earlier request's snapshot.
C22_SupersededRefreshApplies ==
    RefreshResumed => exchangeRates = ResumedRates

\* C22's case: the refresh for USD was issued before the base changed to
\* CNY, the refresh the change started has resolved already, and the USD
\* one resolves last: the store ends with the USD snapshot.
C22_Witness ==
    /\ RefreshResumed
    /\ last.request.base = "USD"
    /\ settings.defaultBaseCurrency = "CNY"
    /\ pending = <<>>
    /\ exchangeRates # NoSnapshot
    /\ exchangeRates.base = "USD"

\* C23: refreshExchangeRates always resolves; when the rate fetch failed the
\* error field is non-null and isLoading is false, and when it succeeded the
\* snapshot is the fetched one, error is null and isLoading is false.
C23_FailureSurfacedAsError ==
    RefreshResumed
    => /\ ~isLoading
       /\ IF NetworkFailed(last.response)
            THEN error # NoError
            ELSE error = NoError /\ exchangeRates = ResumedRates

\* What does hold: the refresh resumes with isLoading false and error null
\* whatever the fetch did; after a failed fetch the snapshot is the embedded
\* fallback table, labelled 'Fallback Data'.
C23_FailureFallsBackSilently ==
    RefreshResumed
    => /\ ~isLoading
       /\ error = NoError
       /\ exchangeRates = ResumedRates
       /\ NetworkFailed(last.response)
             => exchangeRates.source = "Fallback Data"

(***************************************************************************)
(* The effect and the frame of updateSettings (SpecSettings).              *)
(***************************************************************************)
\* An updateSettings(p) step stores p's fields and keeps the others.
MergesPartial ==
    /\ DOMAIN settings' = DOMAIN settings
    /\ \A f \in DOMAIN last'.partial : settings'[f] = last'.partial[f]
    /\ \A f \in DOMAIN settings \ DOMAIN last'.partial :
          settings'[f] = settings[f]

\* The step starts a refresh for the base it has just stored / starts none.
StartsRefresh ==
    /\ pending' = Append(pending, RefreshRequest(settings'.defaultBaseCurrency))
    /\ isLoading'
    /\ error' = NoError
StartsNothing == UNCHANGED <<pending, isLoading, error>>

NextChart ==
    \/ \E data \in CachedSeries : SaveChartData(PairKey("USD", "CNY"), data)
    \/ \E delta \in ClockDeltas : Advance(delta)
    \/ \E range \in ChartRanges : LoadHistoricalData("USD", "CNY", range)
    \/ \E i \in 1 .. MaxCalls, response \in SeriesResponses :
          HistorySettles(i, response, RateScale - 50)

SpecChart == Init /\ [][NextChart]_vars

\* loadChartData would answer the pair from the cache at this moment.
FreshChartEntry(pair) ==
    /\ Has(ChartEntries, pair)
    /\ ~ChartEntryExpired(now, ChartEntries[pair].cachedAt)

\* C25: fetchHistoricalData goes through the TTL cache: with an unexpired
\* entry for the pair it serves the cached series and does not invoke
\* getHistoricalRates, and a series obtained from the source is written to
\* the cache under the pair key.
C25_FetchThroughCache ==
    [][/\ (last'.op = "loadHistoricalData" /\ FreshChartEntry(last'.pair))
            => /\ pending' = pending
               /\ Has(chartData', last'.pair)
               /\ chartData'[last'.pair] = ChartEntries[last'.pair].data
       /\ last'.op = "loadHistoricalData resumes"
            => /\ Has(ChartEntries', last'.pair)
               /\ ChartEntries'[last'.pair].data = chartData'[last'.pair]]_vars

\* What does hold: fetchHistoricalData invokes getHistoricalRates on every
\* call and neither reads nor writes the stored cache.
C25_FetchBypassesCache ==
    [][/\ last'.op = "loadHistoricalData"
            => Len(pending') = Len(pending) + 1 /\ chartData' = chartData
       /\ last'.op \in {"loadHistoricalData", "loadHistoricalData resumes"}
            => localStorage' = localStorage]_vars

(***************************************************************************)
(* Reordering the tracked list (SpecTracked).                              *)
(***************************************************************************)
Occurrences(list, x) == Cardinality({i \in 1 .. Len(list) : list[i] = x})

\* b holds the entries of a, each as often as a does.
IsPermutation(a, b) ==
    /\ Len(a) = Len(b)
    /\ \A i \in 1 .. Len(a) : Occurrences(b, a[i]) = Occurrences(a, a[i])

\* C26: after a reorder, by the manage page's drag handler or by the
\* conversion page's reorder handler, the tracked list is a permutation of
\* the Currency records it held before.
C26_ReorderPermutes ==
    [][last'.op \in {"handleDragEnd", "handleCurrencyReorder"}
       => IsPermutation(currencies, currencies')]_vars

\* What does hold: on a list of Currency records the drag handler stores a
\* permutation of the records, and the conversion page's handler stores the
\* records' codes, as bare strings, in the new order.
C26_DragPermutesReorderKeepsCodes ==
    [][/\ (/\ last'.op = "handleDragEnd"
           /\ \A i \in 1 .. Len(currencies) : "code" \in DOMAIN currencies[i])
            => IsPermutation(currencies, currencies')
       /\ last'.op = "handleCurrencyReorder"
            => /\ Len(currencies') = Len(currencies)
               /\ \A i \in 1 .. Len(currencies') :
                     DOMAIN currencies'[i] = {"string"}
               /\ {currencies'[i].string : i \in 1 .. Len(currencies')}
                     = CodesOf(currencies)]_vars

(***************************************************************************)
(* The pair records of an edit against the amounts it set (SpecEdits).     *)
(***************************************************************************)
\* Edits under every snapshot and decimalPlaces; the history is cleared
\* between them.
NextPairs ==
    \/ \E currency \in Codes, amount \in EditAmounts :
          /\ Len(conversionHistory) < MaxRecords
          /\ HandleAmountChange(currency, amount, 0)
    \/ \E rates \in TestSnapshots : SetExchangeRates(rates)
    \/ \E dp \in DecimalChoices : UpdateSettings([decimalPlaces |-> dp])
    \/ ClearConversionHistory

SpecPairs == Init /\ [][NextPairs]_vars

\* The pair records the edit that has just run appended: the clock moves at
\* every edit, so they are the records stamped since the edit began.
PairRecordsOfEdit ==
    {i \in 1 .. Len(conversionHistory) :
        /\ conversionHistory[i].timestamp >= last.began
        /\ conversionHistory[i].toCurrency # "ALL"}

\* C27: after handleAmountChange(c, X) with X > 0 and a snapshot present,
\* every pair record the edit appended for a target t has toAmount equal to
\* amounts[t] as the same edit set it.
C27_PairRecordsMatchAmounts ==
    (/\ last.op = "handleAmountChange"
     /\ last.amount > 0
     /\ exchangeRates # NoSnapshot)
    => \A i \in PairRecordsOfEdit :
          LET record == conversionHistory[i]
          IN  /\ record.fromCurrency = last.currency
              /\ record.fromAmount = last.amount
              /\ Has(amounts, record.toCurrency)
              /\ record.toAmount = amounts[record.toCurrency]

\* C27's case: an edit of CNY, which is not the base, has appended a record
\* for the base USD and one for EUR, at one decimal place.
C27_Witness ==
    /\ last.op = "handleAmountChange"
    /\ last.currency = "CNY"
    /\ last.amount > 0
    /\ exchangeRates = SnapUSD
    /\ settings.decimalPlaces = 1
    /\ {conversionHistory[i].toCurrency : i \in PairRecordsOfEdit}
          = {"USD", "EUR"}
    /\ \E i \in PairRecordsOfEdit :
          /\ conversionHistory[i].toCurrency = "EUR"
          /\ conversionHistory[i].toAmount = amounts["EUR"]
          /\ amounts["EUR"] > 0

(***************************************************************************)
(* Every caller of getLatestRates: the store's refreshExchangeRates and    *)
(* the conversion page's initializeData and handleRefreshRates.            *)
(***************************************************************************)
\* exchangeRateService.ts line 15: baseCurrency: string = 'USD'.  The page
\* calls getLatestRates() without an argument.
DefaultBase == "USD"

PageRequest(handler) == [kind |-> handler, base |-> DefaultBase]

\* initializeData up to its await, part_001 lines 30-33
InitializeData ==
    /\ Idle
    /\ Len(pending) < MaxCalls
    /\ isLoading' = TRUE
    /\ pending' = Append(pending, PageRequest("initializeData"))
    /\ last' = [op |-> "initializeData"]
    /\ UNCHANGED <<currencies, exchangeRates, amounts, conversionHistory,
                   settings, error, chartData, localStorage, now, ticks,
                   calls, downloads, pc>>

\* handleRefreshRates up to its await, part_001 lines 83-85; `refreshing`
\* is state of the page component
HandleRefreshRates ==
    /\ Idle
    /\ Len(pending) < MaxCalls
    /\ pending' = Append(pending, PageRequest("handleRefreshRates"))
    /\ last' = [op |-> "handleRefreshRates"]
    /\ UNCHANGED <<currencies, exchangeRates, amounts, conversionHistory,
                   settings, isLoading, error, chartData, localStorage, now,
                   ticks, calls, downloads, pc>>

\* Either handler after its await: setExchangeRates(rates), setError(null)
\* (lines 34-35, 86-88), or the catch's setError (lines 37, 91); then the
\* finally of initializeData, setLoading(false) (line 40).
PageFetchSettles(i, response) ==
    /\ Idle
    /\ i \in 1 .. Len(pending)
    /\ pending[i].kind \in {"initializeData", "handleRefreshRates"}
    /\ response \in Responses(pending[i].base)
    /\ LET result == getLatestRates(pending[i].base, response, now)
       IN  IF result.settled = "fulfilled"
             THEN /\ exchangeRates' = result.value
                  /\ error' = NoError
             ELSE /\ error' = "fetch failed"
                  /\ UNCHANGED exchangeRates
    /\ isLoading' = IF pending[i].kind = "initializeData" THEN FALSE
                    ELSE isLoading
    /\ pending' = RemoveAt(pending, i)
    /\ last' = [op |-> "page fetch resumes", request |-> pending[i],
                response |-> response]
    /\ UNCHANGED <<currencies, amounts, conversionHistory, settings,
                   chartData, localStorage, now, ticks, calls, downloads, pc>>

NextRefreshes ==
    \/ RefreshExchangeRates
    \/ /\ Len(pending) < MaxCalls
       /\ \E base \in LoadingBases :
              UpdateSettings([defaultBaseCurrency |-> base])
    \/ InitializeData
    \/ HandleRefreshRates
    \/ \E i \in 1 .. MaxCalls, response \in RefreshResponses :
          RefreshSettles(i, response)
    \/ \E i \in 1 .. MaxCalls, response \in RefreshResponses :
          PageFetchSettles(i, response)

SpecRefreshes == Init /\ [][NextRefreshes]_vars

\* C28: whenever no rate fetch is in flight and a snapshot is present, the
\* snapshot is one requested for the current settings.defaultBaseCurrency.
\* (A snapshot carries the base it was requested for: the endpoint echoes
\* it and the fallback copies it.)
C28_SnapshotForCurrentBase ==
    (pending = <<>> /\ exchangeRates # NoSnapshot)
    => exchangeRates.base = settings.defaultBaseCurrency

\* What does hold: the page's two handlers always ask for the default base
\* of getLatestRates, whatever the settings say, and store what they get.
C28_PageFetchesDefaultBase ==
    last.op = "page fetch resumes"
    => /\ last.request.base = DefaultBase
       /\ exchangeRates = ResumedRates

(***************************************************************************)
(* The two toggles of the manage page (SpecCurrencies).                    *)
(***************************************************************************)
\* The step that completes a toggle: the addCurrency after the
\* removeCurrency.
ToggleCompletes == pc.at = "addCurrency" /\ pc'.at = "idle"

\* The list a toggle started from, with the one flag of the one currency
\* flipped in place.
FlippedInPlace ==
    [i \in 1 .. Len(pc.before.currencies) |->
        IF pc.before.currencies[i].code = pc.currency.code
          THEN pc.currency
          ELSE pc.before.currencies[i]]

\* C29: toggling the favourite or the active flag changes only that flag of
\* that currency: the tracked codes, the currency's position, every other
\* currency and settings.preferredCurrencies are as before the toggle.
C29_ToggleChangesOnlyFlag ==
    [][ToggleCompletes
       => /\ CodesOf(currencies') = CodesOf(pc.before.currencies)
          /\ currencies' = FlippedInPlace
          /\ settings'.preferredCurrencies = pc.before.preferredCurrencies]_vars

\* What does hold: the tracked codes are as before and only the one flag of
\* the toggled currency differs, but the currency has moved to the end of
\* the list and its code is gone from settings.preferredCurrencies.
C29_ToggleMovesToEnd ==
    [][ToggleCompletes
       => /\ CodesOf(currencies') = CodesOf(pc.before.currencies)
          /\ currencies' =
                Append(WithoutCurrency(pc.before.currencies,
                                       pc.currency.code),
                       pc.currency)
          /\ \A f \in DOMAIN pc.currency \ {pc.flag} :
                pc.currency[f] = Find(pc.before.currencies,
                                      pc.currency.code)[f]
          /\ settings'.preferredCurrencies =
                WithoutPreferred(pc.before.preferredCurrencies,
                                 pc.currency.code)]_vars

(***************************************************************************)
(* Clearing all data: the storage service's keys, the store's persisted    *)
(* state and the reload.                                                   *)
(***************************************************************************)
NextClear ==
    \/ \E dp \in DecimalChoices : UpdateSettings([decimalPlaces |-> dp])
    \/ \E code \in {"EUR", "GBP"} : HandleRemoveCurrency(code)
    \/ HandleAddCurrency("GBP")
    \/ SaveSettings(JsObject(DEFAULT_SETTINGS))
    \/ SaveHistory(JsArray(<<AllRecord(1)>>))
    \/ SaveCurrencies(JsArray(DEFAULT_CURRENCIES))
    \/ HandleClearAllData
    \/ Reload

SpecClear == Init /\ [][NextClear]_vars

\* The keys that hold settings, history or currency data.
DataKeys == {KEY_SETTINGS, KEY_HISTORY, KEY_CURRENCIES}

\* C30: after handleClearAllData no persisted key holds settings, history
\* or currency data, and the reload that follows starts from the defaults.
C30_ClearedToDefaults ==
    /\ last.op = "handleClearAllData" => DOMAIN localStorage \cap DataKeys = {}
    /\ last.op = "reload"
          => /\ settings = DEFAULT_SETTINGS
             /\ currencies = DEFAULT_CURRENCIES
             /\ conversionHistory = <<>>

\* What does hold: the history and currencies keys are gone and the history
\* is empty, while the settings key holds the store's settings and tracked
\* list as they were, which the reload brings back.
C30_SettingsSurviveClear ==
    [][/\ last'.op = "handleClearAllData"
            => /\ DOMAIN localStorage' \cap DataKeys = {KEY_SETTINGS}
               /\ StoredState(localStorage') =
                     [currencies |-> currencies, conversionHistory |-> <<>>,
                      settings |-> settings, chartData |-> chartData]
       /\ last'.op = "reload"
            => /\ settings' = settings
               /\ currencies' = currencies
               /\ conversionHistory' = <<>>]_vars

====
